---- MODULE Spec2Model ----
(***************************************************************************)
(* Model of the deal tracker of the BBO Helper content script (bbov3.js):  *)
(* processWebsocket and the functions it calls (trickcard, undo,           *)
(* auctionContract, saveDealTiming, userLoginTasks, sessionCleanup).       *)
(*                                                                         *)
(* Cards and calls are the strings of the protocol, kept as sequences of   *)
(* one-character strings so that charAt and length act as in the code:     *)
(* the card "SA" is <<"S","A">>, the call "1H" is <<"1","H">>, Pass is     *)
(* <<"p">>.  Seats are BBO indices 0..3 = South, West, North, East.        *)
(***************************************************************************)
EXTENDS Integers, Sequences, FiniteSets, TLC

VARIABLES
    deal,        \* app.deal (deal.def = FALSE stands for undefined)
    trick,       \* app.trick
    table,       \* app.table
    context_id,  \* app.context_id
    saved,       \* browser.storage.local writes of saveDealTiming, per deal object
    ndeals,      \* number of deal objects created so far
    last,        \* the message processWebsocket handled last
    ddPending,   \* double dummy requests in flight whose result goes to historyDDcallback
    viewer,      \* the <deal-viewer> of the History pane, as the BBO application renders it
    ddShown,     \* the double dummy table rendered in the viewer (class bhDoubleDummy)
    atTable,     \* the calls and cards made at the BBO table, and the progress of a recap
    injected,    \* app.deal of the injected page script (injectedbbo.js)
    ddChecked,   \* results whose showDoubleDummy() awaits getDealViaDOM()
    socket,      \* the WebSocket of injectedsniffers.js: bytes to come, text held back,
                 \* messages handed on
    fetch        \* one run of fetchdeals() of the My Hands page

ddvars == <<ddPending, viewer, ddShown>>
othervars == <<atTable, injected, ddChecked, socket, fetch>>
vars == <<deal, trick, table, context_id, saved, ndeals, last, ddPending, viewer, ddShown,
          atTable, injected, ddChecked, socket, fetch>>

(***************************************************************************)
(* Bounds of the model.                                                    *)
(***************************************************************************)
MaxCalls == 5        \* longest auction the table produces
MaxUndo  == 3        \* largest count of an sc_undo that the table accepts
MaxDeals == 2        \* deal objects created in one run (SpecDeals)
MaxDealsUndo == 1    \* deal objects created in one run at a table with undos (Spec)
MaxAbandon == 5      \* actions made on a board that is then abandoned
MaxCatchUp == 1      \* actions replayed by the deal blast to a late arrival
HandSize == 2        \* cards dealt to each seat (13 at the table)
MaxPending == 2      \* double dummy requests in flight when the viewer changes
MaxAuction == 7      \* longest auction of SpecAuction
MaxHand == 3         \* most cards of a hand given to the recommendation
MaxResend == 2       \* most times the deal of a board is sent again to the dummy
MaxMsgs == 2         \* messages of the stream sent to the WebSocket
MaxFrame == 8        \* most bytes of one WebSocket frame
MaxIds == 9          \* most ids given to fetchdeals()

(***************************************************************************)
(* Program constants.                                                      *)
(***************************************************************************)
TrickSize == 4              \* trickcard: app.trick.cards.length === 4
NumCards == 4 * HandSize    \* trickcard: app.deal.play.length === 52 (4 x 13)

BoardCycle == 16            \* showDoubleDummy: (d.bnum - bnum) % 16
TooMany == MaxCalls + NumCards + 1   \* an undo count no board's record reaches

Undef == -1          \* JavaScript undefined, for a seat index
NaNSeat == -2        \* JavaScript NaN, for a seat index

rankorder == <<"2","3","4","5","6","7","8","9","T","J","Q","K","A">>
seatorder == <<"s","w","n","e">>

\* String.prototype.indexOf on a string of distinct characters: 0-based, -1 if absent.
IndexOf(seq, c) ==
    IF \E i \in 1..Len(seq) : seq[i] = c
    THEN (CHOOSE i \in 1..Len(seq) : seq[i] = c) - 1
    ELSE -1

\* charAt(1) of a call: the empty string for the one-letter calls p, d, r.
CharAt1(call) == IF Len(call) >= 2 THEN call[2] ELSE ""

Pass == <<"p">>

\* Array.prototype.length = n (truncation), n <= Len(s).
Truncate(s, n) == SubSeq(s, 1, n)

\* (declarer + k) % 4 in JavaScript: NaN when declarer is undefined.
SeatPlus(s, k) == IF s = Undef \/ s = NaNSeat THEN NaNSeat ELSE (s + k) % 4

\* The deal of a double dummy request, {"bnum": ..., "hand": ...}; def = FALSE
\* stands for undefined.  hand names the four hands dealt.
NoD == [def |-> FALSE, bnum |-> 0, hand |-> "", played |-> {}]

(***************************************************************************)
(* The deal record.  Fields the code leaves undefined until first set are  *)
(* FALSE (flags), "undefined" (contract, denom), Undef (declarer) and <<>> *)
(* (tricks).  id is the identity of the deal object.                       *)
(***************************************************************************)
NoDeal ==
    [def |-> FALSE, id |-> 0, board |-> "", table_id |-> "", south |-> "",
     dealer |-> "", blast1_complete |-> FALSE, blast2_complete |-> FALSE,
     seenOpeningLead |-> FALSE, actionTime |-> <<>>, auction |-> <<>>,
     play |-> <<>>, amDummy |-> FALSE, timingSaved |-> FALSE,
     reseating |-> FALSE, notificationReceived |-> FALSE,
     type1DealRepeat |-> FALSE, contract |-> <<"undefined">>,
     denom |-> "undefined", declarer |-> Undef, tricks |-> <<>>, d |-> NoD]

\* The message handled last, as far as the properties look at it: its type (kept
\* for <sc_undo> and <sc_deal>), the count of an <sc_undo> (after the position '*'
\* rule), the board of an <sc_deal>, and whether its handler called console.error.
Msg(mtype, count, board, error) ==
    [op |-> mtype, count |-> count, board |-> board, error |-> error]
NoMsg == Msg("", 0, "", FALSE)

\* No <deal-viewer> in the page (elDealViewer() returns undefined), and no double
\* dummy table rendered.
NoViewer == [def |-> FALSE, bnum |-> 0, hand |-> "", played |-> {},
             picturesOfCards |-> FALSE]
NoShown == [def |-> FALSE, d |-> NoD]

\* the table before the first call of a board
NoAtTable == [auction |-> <<>>, play |-> <<>>, phase |-> "live", replay |-> 0,
              dummy |-> FALSE, resends |-> 0]
\* no WebSocket has been opened, and fetchdeals() has not been called
NoSocket == [stream |-> <<>>, rest |-> <<>>, incompleteMessage |-> <<>>,
             toContent |-> <<>>, toInjected |-> <<>>]
NoFetch == [phase |-> "idle", nhands |-> 0, inflight |-> {}, ixFetch |-> 0,
            nFetched |-> 0, nFailed |-> 0, callbacks |-> 0]
\* app.deal of the injected script is undefined until the first <sc_deal>
NoInjected == [def |-> FALSE, auction |-> <<>>, auctionOpenIx |-> -1, ncardsPlayed |-> 0]

NoTrick == [leader |-> Undef, cards |-> <<>>]
NoTable == [def |-> FALSE, style |-> "", type |-> "", admin |-> FALSE,
            table_id |-> "", context_id |-> 0]


(***************************************************************************)
(* actionTime holds time differences in mS.  The model keeps the two       *)
(* classes the code distinguishes: "0" (catch-up message, no timing) and   *)
(* "t" (a measured time).                                                  *)
(***************************************************************************)
Tdiff(d) == IF d.blast1_complete THEN "t" ELSE "0"

(***************************************************************************)
(* auctionContract(): contract, denom and declarer from app.deal.auction.  *)
(* Indices i1, i2 are 0-based as in the code.                              *)
(***************************************************************************)
MaxOf(S) == CHOOSE x \in S : \A y \in S : y <= x
MinOf(S) == CHOOSE x \in S : \A y \in S : x <= y

\* an auction taken as over after two closing passes
AuctionIncompleteTwoPasses(au) ==
    LET n == Len(au) IN
    IF n < 3 THEN TRUE ELSE ~(au[n] = Pass /\ au[n-1] = Pass)

AuctionIncomplete(au) ==
    LET n == Len(au) IN
    IF n < 4 THEN TRUE
    ELSE ~(au[n] = Pass /\ au[n-1] = Pass /\ au[n-2] = Pass)

\* for (i1=ncalls-4; i1>=0; i1--) { if (au[i1].length === 2) break; }
ContractIndex(au) ==
    LET bids == {i \in 0..(Len(au)-4) : Len(au[i+1]) = 2} IN
    IF bids = {} THEN -1 ELSE MaxOf(bids)

\* a scan that starts at the dealer's call whichever side bid the contract
FirstNamedFromDealer(au, i1, denom) ==
    LET n     == Len(au)
        steps == {i \in 0..(n+1) : i % 2 = 0}
        hit   == {i \in steps : i < n-4 /\ CharAt1(au[i+1]) = denom}
    IN  IF hit # {} THEN MinOf(hit) ELSE MinOf({i \in steps : i >= n-4})

\* a scan over the calls of all four seats
FirstNamedAnySeat(au, i1, denom) ==
    LET n   == Len(au)
        hit == {i \in 0..(n-1) : i < n-4 /\ CharAt1(au[i+1]) = denom}
    IN  IF hit # {} THEN MinOf(hit) ELSE n-4

\* for (i2=(i1 % 2); i2<ncalls-4; i2+=2) { if (au[i2].charAt(1) === denom) break; }
FirstNamed(au, i1, denom) ==
    LET n     == Len(au)
        steps == {i \in 0..(n+1) : i % 2 = i1 % 2}
        hit   == {i \in steps : i < n-4 /\ CharAt1(au[i+1]) = denom}
    IN  IF hit # {} THEN MinOf(hit) ELSE MinOf({i \in steps : i >= n-4})

\* The result: the deal, and whether the call ended in a TypeError (au[-1].length
\* on an auction with no bid, before any field is assigned).
AuctionContract(d) ==
    LET au == d.auction
        i1 == ContractIndex(au)
    IN  IF AuctionIncomplete(au)
        THEN [deal |-> [d EXCEPT !.contract = <<"undefined">>,
                                 !.denom = "undefined", !.declarer = Undef],
              threw |-> FALSE]
        ELSE IF i1 = -1
        THEN [deal |-> d, threw |-> TRUE]
        ELSE LET denom == au[i1+1][2]
                 i2    == FirstNamed(au, i1, denom)
             IN  [deal |-> [d EXCEPT !.contract = au[i1+1], !.denom = denom,
                                     !.declarer =
                                         (IndexOf(seatorder, d.dealer) + i2) % 4],
                  threw |-> FALSE]

(***************************************************************************)
(* saveDealTiming(): one write to local storage per deal object, guarded   *)
(* by deal.timingSaved.  saved counts the writes made for each deal object. *)
(***************************************************************************)
AlreadySaved(d) == d.timingSaved

SaveDealTiming(d, sv) ==
    IF ~d.def \/ AlreadySaved(d)
    THEN [deal |-> d, saved |-> sv]
    ELSE [deal  |-> [d EXCEPT !.timingSaved = TRUE],
          saved |-> [sv EXCEPT ![d.id] = @ + 1]]

(***************************************************************************)
(* trickcard(): the winner of a complete trick.  The loop over cards 1..3  *)
(* keeps (bix, bestDenom, bestRank).                                       *)
(***************************************************************************)
Suit(card) == card[1]
Rank(card) == IndexOf(rankorder, card[2])

\* the step of a loop that knows no trump: only a higher card of the suit of the
\* best card so far takes over
BestStepNoTrump(cards, trump, i, b) ==
    IF Suit(cards[i+1]) = b.bestDenom /\ Rank(cards[i+1]) > b.bestRank
    THEN [b EXCEPT !.bestRank = Rank(cards[i+1]), !.bix = i]
    ELSE b

BestStep(cards, trump, i, b) ==
    LET denom == Suit(cards[i+1])
        rank  == Rank(cards[i+1])
    IN  IF denom = b.bestDenom
        THEN IF rank > b.bestRank
             THEN [b EXCEPT !.bestRank = rank, !.bix = i]
             ELSE b
        ELSE IF denom = trump
        THEN [bix |-> i, bestDenom |-> trump, bestRank |-> rank]
        ELSE b

\* index (0..3) of the best card of a 4-card trick
BestIndex(cards, trump) ==
    LET b0 == [bix |-> 0, bestDenom |-> Suit(cards[1]), bestRank |-> Rank(cards[1])]
        b1 == BestStep(cards, trump, 1, b0)
        b2 == BestStep(cards, trump, 2, b1)
        b3 == BestStep(cards, trump, 3, b2)
    IN  b3.bix

\* the next trick, led again by the leader of the trick just completed
NextTrickSameLeader(t, trump) == [leader |-> t.leader, cards |-> <<>>]

\* let lix = (app.trick.leader + bix) % 4; app.trick = {"leader": lix, "cards": []}
NextTrick(t, trump) == [leader |-> SeatPlus(t.leader, BestIndex(t.cards, trump)),
                        cards |-> <<>>]

\* the test of the last card made one card too late
AllCardsPlayedOffByOne(d) == Len(d.play) = NumCards + 1

\* if (app.deal.play.length === 52)
AllCardsPlayed(d) == Len(d.play) = NumCards

(***************************************************************************)
(* trickcard(card, timeStamp, isMe).  A TypeError (auctionContract on an   *)
(* auction without a bid, or app.trick undefined) ends the call with the   *)
(* assignments made so far.  ended: the call reached the branch of the     *)
(* last card of the board.                                                 *)
(***************************************************************************)
TrickCard(d, t, sv, card) ==
    LET d1 == [d EXCEPT !.play = Append(@, card),
                        !.actionTime = Append(@, Tdiff(d))]
        ac == AuctionContract(d1)
        opening == ~d1.seenOpeningLead
        passout == opening /\ ~ac.threw /\ ac.deal.contract = <<"Pass">>
        d2 == IF ~opening THEN d1
              ELSE IF passout THEN ac.deal
              ELSE [ac.deal EXCEPT !.seenOpeningLead = TRUE, !.tricks = <<>>]
        t2 == IF ~opening \/ passout THEN t
              ELSE [leader |-> SeatPlus(ac.deal.declarer, 1), cards |-> <<>>]
        t3 == [t2 EXCEPT !.cards = Append(@, card)]
        full == Len(t3.cards) = TrickSize
        d3 == IF full THEN [d2 EXCEPT !.tricks = Append(@, t3)] ELSE d2
        t4 == IF full THEN NextTrick(t3, d2.denom) ELSE t3
        sd == IF AllCardsPlayed(d3) THEN SaveDealTiming(d3, sv)
              ELSE [deal |-> d3, saved |-> sv]
    IN  IF opening /\ ac.threw
        THEN [deal |-> d1, trick |-> t, saved |-> sv, ended |-> FALSE]
        ELSE IF t2 = NoTrick
        THEN [deal |-> d2, trick |-> t2, saved |-> sv, ended |-> FALSE]
        ELSE [deal |-> sd.deal, trick |-> t4, saved |-> sd.saved,
              ended |-> AllCardsPlayed(d3)]

(***************************************************************************)
(* undo(msg, timeStamp) with count and position parsed from the message;   *)
(* star is position === '*'.  error: the guard against a rollback past the *)
(* start of the deal wrote its console.error line.                         *)
(***************************************************************************)
UndoCount(count, star) == IF count = 0 /\ star THEN 1 ELSE count

\* the guard, off by one
UndoExceedsByTwo(d, undoCount) == undoCount > Len(d.actionTime) + 1

\* Guard against a rollback past start of deal.
UndoExceeds(d, undoCount) == undoCount > Len(d.actionTime)

\* the pop, with the popped trick led by the seat that won it
PopTrickLedByWinner(t, tricks) ==
    IF tricks = <<>> THEN [trick |-> [leader |-> Undef, cards |-> <<>>], tricks |-> tricks]
    ELSE [trick  |-> [tricks[Len(tricks)] EXCEPT !.leader = t.leader],
          tricks |-> SubSeq(tricks, 1, Len(tricks) - 1)]

\* app.trick = app.deal.tricks.pop()
PopTrick(t, tricks) ==
    IF tricks = <<>> THEN [trick |-> NoTrick, tricks |-> tricks]
    ELSE [trick |-> tricks[Len(tricks)], tricks |-> Truncate(tricks, Len(tricks) - 1)]

\* while (cnt > 0) { ... }: rewind app.trick and app.deal.tricks[]
RECURSIVE Rewind(_, _, _)
Rewind(t, tricks, cnt) ==
    IF cnt <= 0 THEN [trick |-> t, tricks |-> tricks]
    ELSE LET ncards == Len(t.cards) IN
         IF ncards >= cnt
         THEN [trick |-> [t EXCEPT !.cards = Truncate(@, ncards - cnt)],
               tricks |-> tricks]
         ELSE LET p == PopTrick(t, tricks) IN
              IF p.trick = NoTrick THEN p
              ELSE Rewind(p.trick, p.tricks, cnt - ncards)

\* the rollback into the auction, popping one call too many
RewindAuctionOneMore(d, undoCount) ==
    [d EXCEPT !.seenOpeningLead = FALSE, !.play = <<>>, !.amDummy = FALSE,
              !.auction = SubSeq(@, 1, Len(@) - (undoCount - Len(d.play)) - 1)]

\* Still in the auction or rolled back into it.
RewindAuction(d, undoCount) ==
    LET undoAuctionCount == undoCount - Len(d.play)
        keep == Len(d.auction) - undoAuctionCount
    IN  [d EXCEPT !.seenOpeningLead = FALSE,
                  !.play = <<>>,
                  !.auction = IF keep >= 0 THEN Truncate(@, keep) ELSE @,
                  !.amDummy = IF keep >= 0 THEN FALSE ELSE @]

UndoOp(d, t, count, star) ==
    LET undoCount == UndoCount(count, star)
        d1 == [d EXCEPT !.actionTime = Truncate(@, Len(@) - undoCount)]
        d2 == IF Len(d1.play) >= undoCount
              THEN [d1 EXCEPT !.play = Truncate(@, Len(@) - undoCount)]
              ELSE RewindAuction(d1, undoCount)
        rw == Rewind(t, d2.tricks, undoCount)
    IN  IF UndoExceeds(d, undoCount)
        THEN [deal |-> d, trick |-> t, error |-> TRUE]
        ELSE IF d2.seenOpeningLead
        THEN [deal |-> [d2 EXCEPT !.tricks = rw.tricks], trick |-> rw.trick,
              error |-> FALSE]
        ELSE [deal |-> d2, trick |-> t, error |-> FALSE]


(***************************************************************************)
(* The feed: what the BBO server and the user's client send.               *)
(***************************************************************************)
\* the <sc_deal> messages: board 1 is dealt twice, with different hands
DealMsgs == { <<"1", "h1">>, <<"1", "h2">>, <<"2", "h2">> }

\* sc_table_node / sc_table_open messages: style, type, tkey ending in
\* 'bbombadmin' (admin), table_id, context_id.  Two social tables share a context.
SocialTable == [def |-> TRUE, style |-> "", type |-> "8", admin |-> FALSE,
                table_id |-> "t1", context_id |-> 1]
TableMsgs ==
    { SocialTable,
      [def |-> TRUE, style |-> "",         type |-> "8",   admin |-> FALSE,
       table_id |-> "t2", context_id |-> 1],
      [def |-> TRUE, style |-> "",         type |-> "100", admin |-> FALSE,
       table_id |-> "t1", context_id |-> 2],
      [def |-> TRUE, style |-> "teaching", type |-> "4",   admin |-> FALSE,
       table_id |-> "t1", context_id |-> 3],
      [def |-> TRUE, style |-> "t-mbt",    type |-> "1",   admin |-> FALSE,
       table_id |-> "t1", context_id |-> 4],
      [def |-> TRUE, style |-> "t-indy",   type |-> "8",   admin |-> TRUE,
       table_id |-> "t1", context_id |-> 5] }

\* the dealer attribute of <sc_deal>: board 1 is dealt by North, board 2 by East
DealerOf(board) == IF board = "1" THEN "n" ELSE "e"

\* Calls of the table's auctions, and the rank of a bid (a bid must outrank
\* the last bid made).
Calls == {Pass, <<"1","H">>, <<"1","N">>}
BidRank(call) == IF call = <<"1","H">> THEN 1 ELSE IF call = <<"1","N">> THEN 2 ELSE 0
LastBidRank(au) ==
    LET bids == {i \in 1..Len(au) : Len(au[i]) = 2} IN
    IF bids = {} THEN 0 ELSE BidRank(au[MaxOf(bids)])
Sufficient(au, call) ==
    IF call = Pass THEN TRUE ELSE BidRank(call) > LastBidRank(au)

\* The cards dealt, suit by suit from the ace down (HandSize ranks of each suit),
\* and the order in which the table plays them: a fixed order for each deal
\* that can be dealt.
suitorder == <<"S","H","D","C">>
Deck(i) == <<suitorder[((i-1) \div HandSize) + 1],
             rankorder[Len(rankorder) - ((i-1) % HandSize)]>>
CardAt(hand, pos) ==
    IF hand = "h1" THEN Deck((((pos-1) * 5) % NumCards) + 1)
    ELSE Deck((((pos-1) * 11 + 3) % NumCards) + 1)

HasContract(au) == ~AuctionIncomplete(au) /\ ContractIndex(au) >= 0

\* The board is still being bid or played at the table.
Live == deal.def /\ ~deal.timingSaved

\* The deal blast (<sc_deal> ... <sc_deal_blast_complete>) replays the actions made
\* before the user arrived; the actions after it are timed.
CatchUpOpen == ~deal.blast1_complete /\ Len(deal.actionTime) < MaxCatchUp
Timed == deal.blast1_complete \/ CatchUpOpen

\* A board is left behind (next board, table change, login, logout) after its
\* first few actions or when it is over.
Quiet == IF deal.def
         THEN Len(deal.actionTime) <= MaxAbandon \/ deal.timingSaved
         ELSE TRUE

CallExpected(call) ==
    /\ Live /\ Timed
    /\ AuctionIncomplete(deal.auction)
    /\ Len(deal.auction) < MaxCalls
    /\ Sufficient(deal.auction, call)

CardExpected ==
    /\ Live /\ Timed
    /\ table.def /\ table.type # "100"
    /\ HasContract(deal.auction)
    /\ Len(deal.play) < NumCards

NextCard == CardAt(deal.south, Len(deal.play) + 1)

(***************************************************************************)
(* Initial state: the content script has just been loaded.                 *)
(***************************************************************************)
Init ==
    /\ deal = NoDeal
    /\ trick = NoTrick
    /\ table = NoTable
    /\ context_id = 0
    /\ saved = [i \in 1..MaxDeals |-> 0]
    /\ ndeals = 0
    /\ last = NoMsg
    /\ ddPending = {}
    /\ viewer = NoViewer
    /\ ddShown = NoShown
    /\ atTable = NoAtTable
    /\ injected = NoInjected
    /\ ddChecked = {}
    /\ socket = NoSocket
    /\ fetch = NoFetch

(***************************************************************************)
(* processWebsocket: sc_table_node                                         *)
(***************************************************************************)
ScTableNode(m) ==
    /\ Quiet
    /\ IF deal.def /\ deal.reseating /\ m.style = "t-indy"
       THEN UNCHANGED <<table, context_id, deal>>
       ELSE /\ table' = m
            /\ IF context_id # m.context_id
               THEN context_id' = m.context_id /\ deal' = NoDeal
               ELSE UNCHANGED <<context_id, deal>>
    /\ UNCHANGED <<trick, saved, ndeals>>
    /\ last' = NoMsg
    /\ UNCHANGED ddvars
    /\ UNCHANGED othervars


(***************************************************************************)
(* processWebsocket: sc_deal.  The message carries board, the table's      *)
(* table_id, the dealer and the hands.  south stands for the hands dealt;  *)
(* full says that all four are given (none is the placeholder 'SHDC').     *)
(***************************************************************************)
DoubleBoard1(board, south) ==
    /\ deal.def /\ board = "1"
    /\ (table.type = "100" \/ table.style = "teaching")
    /\ south # deal.south

\* if (app.deal === undefined || app.deal.board !== board ||
\*     app.deal.table_id !== table_id || doubleBoard1)
IsNewDeal(board, table_id, south) ==
    \/ ~deal.def
    \/ deal.board # board
    \/ deal.table_id # table_id
    \/ DoubleBoard1(board, south)

\* The Robot Race events ('t-mbt') send a seemingly unnecessary second <sc_deal>.
IsType1Repeat(board, full) ==
    /\ deal.def /\ deal.blast1_complete
    /\ deal.board = board /\ table.style = "t-mbt" /\ ~full

\* parseInt of a board attribute (one digit)
ParseInt(str) == IndexOf(<<"0","1","2","3","4","5","6","7","8","9">>, str)

\* pref.appDoubleDummyMode, the mode in which a full deal is solved at once
appDoubleDummyMode == "always"

\* if (pref.appDoubleDummyMode === 'always' && <all four hands known>)
\*     { let d = {"bnum": parseInt(app.deal.board), "hand": ...}; app.deal.d = d;
\*       doubledummy(d, false); }
\* No callback: the result is only cached.
Prefetch(d, full) ==
    IF appDoubleDummyMode = "always" /\ full
    THEN [d EXCEPT !.d = [def |-> TRUE, bnum |-> ParseInt(d.board),
                          hand |-> d.south, played |-> {}]]
    ELSE d

\* doubledummy(d, false) at the prefetch of a new deal: no third argument, so
\* the callback is undefined
PrefetchCallback == "undefined"

\* What the answer of the solver to a request leads to: zacharyDDcallback is
\* the one callback that calls sendDDToPython(dd); historyDDcallback renders
\* the table in the viewer; without a callback the result is only cached.
SolverAnswered(callback) ==
    [cached    |-> TRUE,
     rendered  |-> callback = "historyDDcallback",
     forwarded |-> callback = "zacharyDDcallback"]

FreshDeal(board, table_id, south, id) ==
    [NoDeal EXCEPT !.def = TRUE, !.id = id, !.board = board,
                   !.table_id = table_id, !.south = south,
                   !.dealer = DealerOf(board)]

\* app.deal.d.source = 'session'; doubledummy(app.deal.d, bCacheOnly, historyDDcallback)
\* at the end of a board: a TypeError, and no request, if app.deal.d is undefined.
DisplayRequest(d, pending) ==
    IF d.d.def THEN pending \cup {d.d} ELSE pending

\* What the table can send: a deal for the open table; the deal of the board in
\* progress is sent again once its auction is over (the player has become dummy),
\* or right after the first one at a Robot Race table.
FullDealSent == table.type = "100" \/ table.style = "teaching"

DealExpected(maxd, board, south, full) ==
    /\ table.def
    /\ IsNewDeal(board, table.table_id, south) =>
          ndeals < maxd /\ Quiet /\ full = FullDealSent
    /\ (deal.def /\ ~IsNewDeal(board, table.table_id, south)) =>
          /\ south = deal.south
          /\ ~deal.reseating =>
                \/ IsType1Repeat(board, full)
                \/ full /\ ~AuctionIncomplete(deal.auction)

\* sendGameEvent('new_deal', ...) is the last statement of the sc_deal handler:
\* it is reached by the branch of a new deal and by the branch of the deal sent
\* again to the dummy, not after the return for reseating or for the redundant
\* deal of a Robot Race table.
NewDealForwarded(board, full) ==
    IF deal.def /\ deal.reseating THEN FALSE ELSE ~IsType1Repeat(board, full)

ScDeal(maxd, board, south, full) ==
    /\ DealExpected(maxd, board, south, full)
    /\ IF deal.def /\ deal.reseating
       THEN UNCHANGED <<deal, saved, ndeals>>
       ELSE IF IsType1Repeat(board, full)
       THEN /\ deal' = [deal EXCEPT !.type1DealRepeat = TRUE]
            /\ UNCHANGED <<saved, ndeals>>
       ELSE IF IsNewDeal(board, table.table_id, south)
       THEN /\ saved' = SaveDealTiming(deal, saved).saved
            /\ ndeals' = ndeals + 1
            /\ deal' = Prefetch(FreshDeal(board, table.table_id, south, ndeals + 1),
                                full)
       ELSE /\ deal' = [deal EXCEPT !.south = south, !.amDummy = TRUE]
            /\ UNCHANGED <<saved, ndeals>>
    /\ UNCHANGED <<trick, table, context_id>>
    /\ last' = Msg("sc_deal", 0, board, FALSE)
    /\ UNCHANGED ddvars
    /\ UNCHANGED othervars

(***************************************************************************)
(* processWebsocket: sc_deal_blast_complete                                *)
(***************************************************************************)
\* a blast is open: the first one, the one of the deal sent again, or the
\* redundant one of a Robot Race table
BlastOpen ==
    IF deal.def
    THEN \/ ~deal.blast1_complete
         \/ deal.type1DealRepeat
         \/ deal.amDummy /\ ~deal.blast2_complete
         \/ deal.reseating
    ELSE FALSE

ScDealBlastComplete ==
    /\ BlastOpen
    /\ IF deal.reseating THEN UNCHANGED deal
       ELSE IF deal.type1DealRepeat
       THEN deal' = [deal EXCEPT !.type1DealRepeat = FALSE]
       ELSE IF ~deal.blast1_complete
       THEN deal' = [deal EXCEPT !.blast1_complete = TRUE]
       ELSE deal' = [deal EXCEPT !.blast2_complete = TRUE]
    /\ UNCHANGED <<trick, table, context_id, saved, ndeals>>
    /\ last' = NoMsg
    /\ UNCHANGED ddvars
    /\ UNCHANGED othervars

(***************************************************************************)
(* processWebsocket: sc_call_made and cs_make_bid                          *)
(***************************************************************************)
\* the last pass at a bidding table (type = "100")
FinalPassAtBiddingTable(d) ==
    LET n == Len(d.auction) IN
    IF table.type = "100" /\ n > 3
    THEN d.auction[n] = Pass /\ d.auction[n-1] = Pass /\ d.auction[n-2] = Pass
    ELSE FALSE

\* passed out hand at a Teaching table
PassedOutAtTeachingTable(d) ==
    IF Len(d.auction) = 4 /\ table.style = "teaching"
    THEN \A i \in 1..4 : d.auction[i] = Pass
    ELSE FALSE

\* String.prototype.toUpperCase on a seat letter
ToUpperCase(c) ==
    IF c = "s" THEN "S" ELSE IF c = "w" THEN "W"
    ELSE IF c = "n" THEN "N" ELSE IF c = "e" THEN "E" ELSE c

\* the seat of the call before the last one
BidderIndexOfPrevious(dealerIndex, ncalls) == (dealerIndex + ncalls + 2) % 4

\* const bidderIndex = (dealerIndex + ncalls - 1) % 4, ncalls counted after the push
BidderIndex(dealerIndex, ncalls) == (dealerIndex + ncalls - 1) % 4

\* The bid_made event sent by sc_call_made for the call just pushed to the
\* auction of d: bidder is named from seats = ['N','E','S','W'].
BidMade(d, call) ==
    LET seats       == <<"N", "E", "S", "W">>
        dealer      == IF d.dealer # "" THEN ToUpperCase(d.dealer) ELSE "N"
        dealerIndex == IndexOf(seats, dealer)
        bidderIndex == BidderIndex(dealerIndex, Len(d.auction))
    IN  [call |-> call,
         bidder |-> IF dealerIndex >= 0 THEN seats[bidderIndex + 1] ELSE "?",
         dealer |-> dealer,
         auction |-> d.auction]

\* the part common to both handlers: record the call, then save the timing if
\* the board ends with it
RecordCall(d, sv, call) ==
    LET d1 == [d EXCEPT !.auction = Append(@, call),
                        !.actionTime = Append(@, Tdiff(d))]
        ended == FinalPassAtBiddingTable(d1) \/ PassedOutAtTeachingTable(d1)
        sd == IF ended THEN SaveDealTiming(d1, sv) ELSE [deal |-> d1, saved |-> sv]
    IN  [deal |-> sd.deal, saved |-> sd.saved, ended |-> ended]

\* if (app.deal === undefined || app.deal.amDummy || app.deal.reseating) { return; }
CallIgnored(d) == ~(d.def /\ ~d.amDummy /\ ~d.reseating)

\* the sc_call_made branch of processWebsocket
HandleCall(d, sv, call) ==
    IF CallIgnored(d) THEN [deal |-> d, saved |-> sv, ended |-> FALSE]
    ELSE RecordCall(d, sv, call)

\* the table sends the next call of the auction, or a call of the recap that
\* follows a deal sent again
ScCallMade(call) ==
    /\ deal.def
    /\ IF CallIgnored(deal) THEN TRUE ELSE CallExpected(call)
    /\ LET r == HandleCall(deal, saved, call) IN
       /\ deal' = r.deal /\ saved' = r.saved
       /\ ddPending' = IF r.ended THEN DisplayRequest(r.deal, ddPending)
                       ELSE ddPending
    /\ UNCHANGED <<trick, table, context_id, ndeals>>
    /\ last' = NoMsg
    /\ UNCHANGED <<viewer, ddShown>>
    /\ UNCHANGED othervars

CsMakeBid(call) ==
    /\ CallExpected(call)
    /\ ~deal.amDummy /\ ~deal.reseating   \* the user is at the table, bidding
    /\ LET r == RecordCall(deal, saved, call) IN
       /\ deal' = r.deal /\ saved' = r.saved
       /\ ddPending' = IF r.ended THEN DisplayRequest(r.deal, ddPending)
                       ELSE ddPending
    /\ UNCHANGED <<trick, table, context_id, ndeals>>
    /\ last' = NoMsg
    /\ UNCHANGED <<viewer, ddShown>>
    /\ UNCHANGED othervars

(***************************************************************************)
(* processWebsocket: sc_card_played and cs_play_card                       *)
(***************************************************************************)
\* if (!app.deal.amDummy || app.deal.blast2_complete)
CardAccepted(d) == IF d.amDummy THEN d.blast2_complete ELSE TRUE

\* The card_played event sent by sc_card_played: player is worked out from
\* app.trick and app.deal as they are before trickcard() runs, with
\* seats = ['S','W','N','E']; seats[NaN] is undefined.
CardPlayed(d, t, card) ==
    LET seats == <<"S", "W", "N", "E">>
        inTrick == IF t = NoTrick THEN FALSE ELSE d.seenOpeningLead
    IN  [card |-> card,
         player |-> IF inTrick
                    THEN IF t.leader \in 0..3
                         THEN seats[((t.leader + Len(t.cards)) % 4) + 1]
                         ELSE "undefined"
                    ELSE IF d.declarer # Undef
                    THEN seats[((d.declarer + 1) % 4) + 1]
                    ELSE "?",
         played_count |-> Len(d.play)]

\* the sc_card_played branch of processWebsocket
HandleCard(d, t, sv, card) ==
    IF CardAccepted(d) THEN TrickCard(d, t, sv, card)
    ELSE [deal |-> d, trick |-> t, saved |-> sv, ended |-> FALSE]

\* if (app.table.style === "teaching") { ... doubledummy(app.deal.d, ...) } in the
\* branch of the last card of the board
LastCardRequest(r, pending) ==
    IF r.ended /\ table.style = "teaching" THEN DisplayRequest(r.deal, pending)
    ELSE pending

ScCardPlayed ==
    /\ CardExpected
    /\ LET r == HandleCard(deal, trick, saved, NextCard) IN
       /\ deal' = r.deal /\ trick' = r.trick /\ saved' = r.saved
       /\ ddPending' = LastCardRequest(r, ddPending)
    /\ UNCHANGED <<table, context_id, ndeals>>
    /\ last' = NoMsg
    /\ UNCHANGED <<viewer, ddShown>>
    /\ UNCHANGED othervars

\* String.prototype.search for a literal pattern: the 0-based position of its
\* first occurrence in the text, -1 if there is none
Search(text, pat) ==
    LET at == {i \in 0..(Len(text) - Len(pat)) :
                  \A k \in 1..Len(pat) : text[i + k] = pat[k]}
    IN  IF at = {} THEN -1 ELSE MinOf(at)

\* String.prototype.slice(from, to) with 0 <= from <= to
Slice(text, from, to) == SubSeq(text, from + 1, MinOf({to, Len(text)}))

\* A cs_play_card message up to its card field; "|" stands for the separator
\* \x01 of client messages.
CsPlayCardHead == << "c", "s", "_", "p", "l", "a", "y", "_", "c", "a", "r", "d", "|", "t", "a", "b", "l", "e", "_", "i", "d", "=", "1", "|" >>

\* the message of the user's card, and the message without its card field
CsPlayCardMsg(card) == CsPlayCardHead \o << "c", "a", "r", "d", "=" >> \o card
CsPlayCardNoCard == CsPlayCardHead

\* let pos = msg.search('card='); let card = msg.slice(pos+5, pos+7);
CardOfCsPlayCard(msg) ==
    LET pos == Search(msg, << "c", "a", "r", "d", "=" >>) IN Slice(msg, pos + 5, pos + 7)

\* the cs_play_card handler on a message: trickcard(card, e.timeStamp, true)
HandleCsPlayCard(d, t, sv, msg) == TrickCard(d, t, sv, CardOfCsPlayCard(msg))

CsPlayCard ==
    /\ CardExpected
    /\ ~deal.amDummy                      \* dummy plays no card
    /\ LET r == TrickCard(deal, trick, saved, NextCard) IN
       /\ deal' = r.deal /\ trick' = r.trick /\ saved' = r.saved
       /\ ddPending' = LastCardRequest(r, ddPending)
    /\ UNCHANGED <<table, context_id, ndeals>>
    /\ last' = NoMsg
    /\ UNCHANGED <<viewer, ddShown>>
    /\ UNCHANGED othervars

(***************************************************************************)
(* processWebsocket: sc_claim_accepted, sc_undo                            *)
(***************************************************************************)
\* The claim_accepted event sent by sc_claim_accepted: of the message only the
\* attribute tricks is read (parseInt of the digits).
ClaimAccepted(d, msg) == [tricks_claimed |-> msg.tricks, board |-> d.board]

ScClaimAccepted ==
    /\ CardExpected
    /\ deal' = SaveDealTiming(deal, saved).deal
    /\ saved' = SaveDealTiming(deal, saved).saved
    /\ ddPending' = IF table.style = "teaching" THEN DisplayRequest(deal, ddPending)
                    ELSE ddPending
    /\ UNCHANGED <<trick, table, context_id, ndeals>>
    /\ last' = NoMsg
    /\ UNCHANGED <<viewer, ddShown>>
    /\ UNCHANGED othervars

ScUndo(count, star) ==
    /\ deal.def
    /\ LET r == UndoOp(deal, trick, count, star) IN
       /\ deal' = r.deal /\ trick' = r.trick
       /\ last' = Msg("sc_undo", UndoCount(count, star), "", r.error)
    /\ UNCHANGED <<table, context_id, saved, ndeals>>
    /\ UNCHANGED ddvars
    /\ UNCHANGED othervars

(***************************************************************************)
(* processWebsocket: sc_table_close, sc_table_open_complete,               *)
(* sc_notify_user, sc_loginok (userLoginTasks), cs_logout and sc_boot      *)
(* (sessionCleanup)                                                        *)
(***************************************************************************)
ReseatingDeclarer ==
    LET n == Len(deal.auction) IN
    IF deal.notificationReceived /\ table.style = "t-indy" /\ table.admin /\ n >= 2
    THEN deal.auction[n] = Pass /\ deal.auction[n-1] = Pass
    ELSE FALSE

ScTableClose ==
    /\ table.def /\ Quiet
    /\ IF deal.def /\ ReseatingDeclarer
       THEN deal' = [deal EXCEPT !.reseating = TRUE] /\ UNCHANGED saved
       ELSE deal' = NoDeal /\ saved' = SaveDealTiming(deal, saved).saved
    /\ UNCHANGED <<trick, table, context_id, ndeals>>
    /\ last' = NoMsg
    /\ UNCHANGED ddvars
    /\ UNCHANGED othervars

ScTableOpenComplete ==
    /\ deal.def
    /\ deal' = [deal EXCEPT !.reseating = FALSE]
    /\ UNCHANGED <<trick, table, context_id, saved, ndeals>>
    /\ last' = NoMsg
    /\ UNCHANGED ddvars
    /\ UNCHANGED othervars

ScNotifyUser ==
    /\ deal.def /\ table.style = "t-indy"
    /\ deal' = [deal EXCEPT !.notificationReceived = TRUE]
    /\ UNCHANGED <<trick, table, context_id, saved, ndeals>>
    /\ last' = NoMsg
    /\ UNCHANGED ddvars
    /\ UNCHANGED othervars

\* app.deal = undefined; every .bhDoubleDummy element is removed from the page
UserLoginTasks ==
    /\ Quiet
    /\ deal' = NoDeal
    /\ UNCHANGED <<trick, table, context_id, saved, ndeals>>
    /\ last' = NoMsg
    /\ ddShown' = NoShown
    /\ UNCHANGED <<ddPending, viewer>>
    /\ UNCHANGED othervars

SessionCleanup ==
    /\ deal.def /\ Quiet
    /\ deal' = SaveDealTiming(deal, saved).deal
    /\ saved' = SaveDealTiming(deal, saved).saved
    /\ UNCHANGED <<trick, table, context_id, ndeals>>
    /\ last' = NoMsg
    /\ UNCHANGED ddvars
    /\ UNCHANGED othervars

\* the <sc_undo> messages: a count, and whether the position is '*'
UndoMsgs == {<<k, FALSE>> : k \in 0..MaxUndo} \cup {<<0, TRUE>>, <<TooMany, FALSE>>}

(***************************************************************************)
(* Spec: one board at a table where undos are accepted.                    *)
(***************************************************************************)
Next ==
    \/ \E m \in TableMsgs : ScTableNode(m)
    \/ \E m \in DealMsgs, f \in BOOLEAN : ScDeal(MaxDealsUndo, m[1], m[2], f)
    \/ ScDealBlastComplete
    \/ \E c \in Calls : ScCallMade(c)
    \/ \E c \in Calls : CsMakeBid(c)
    \/ ScCardPlayed
    \/ CsPlayCard
    \/ ScClaimAccepted
    \/ \E u \in UndoMsgs : ScUndo(u[1], u[2])
    \/ ScTableClose
    \/ ScTableOpenComplete
    \/ ScNotifyUser
    \/ UserLoginTasks
    \/ SessionCleanup

Spec == Init /\ [][Next]_vars

(***************************************************************************)
(* SpecDeals: successive boards, at tables where no undo is accepted.      *)
(***************************************************************************)
NextDeals ==
    \/ \E m \in TableMsgs : ScTableNode(m)
    \/ \E m \in DealMsgs, f \in BOOLEAN : ScDeal(MaxDeals, m[1], m[2], f)
    \/ ScDealBlastComplete
    \/ \E c \in Calls : ScCallMade(c)
    \/ \E c \in Calls : CsMakeBid(c)
    \/ ScCardPlayed
    \/ CsPlayCard
    \/ ScClaimAccepted
    \/ ScTableClose
    \/ ScTableOpenComplete
    \/ ScNotifyUser
    \/ UserLoginTasks
    \/ SessionCleanup

SpecDeals == Init /\ [][NextDeals]_vars

(***************************************************************************)
(* SpecTrick: the trick evaluator of trickcard on every trick of four      *)
(* different cards of a twelve-card deck, at a heart, a spade and a        *)
(* notrump contract.                                                       *)
(***************************************************************************)
TrickDeck == {<<s, r>> : s \in {"S", "H", "D"}, r \in {"2", "Q", "K", "A"}}
TrickBids == {<<"1", "H">>, <<"1", "S">>, <<"1", "N">>}

\* a social table after the auction bid, pass, pass, pass of board 1
InitTrick ==
    /\ \E bid \in TrickBids :
          deal = [FreshDeal("1", SocialTable.table_id, "h1", 1) EXCEPT
                     !.blast1_complete = TRUE,
                     !.auction = <<bid, Pass, Pass, Pass>>,
                     !.actionTime = <<"t", "t", "t", "t">>]
    /\ trick = NoTrick
    /\ table = SocialTable
    /\ context_id = SocialTable.context_id
    /\ saved = [i \in 1..MaxDeals |-> 0]
    /\ ndeals = 1
    /\ last = NoMsg
    /\ ddPending = {}
    /\ viewer = NoViewer
    /\ ddShown = NoShown
    /\ atTable = NoAtTable
    /\ injected = NoInjected
    /\ ddChecked = {}
    /\ socket = NoSocket
    /\ fetch = NoFetch

\* sc_card_played with any card not yet played, up to the end of the first trick
ScCardPlayedAny(card) ==
    /\ deal.def /\ Len(deal.play) < TrickSize
    /\ \A i \in 1..Len(deal.play) : deal.play[i] # card
    /\ LET r == HandleCard(deal, trick, saved, card) IN
       /\ deal' = r.deal /\ trick' = r.trick /\ saved' = r.saved
       /\ ddPending' = LastCardRequest(r, ddPending)
    /\ UNCHANGED <<table, context_id, ndeals, last>>
    /\ UNCHANGED <<viewer, ddShown>>
    /\ UNCHANGED othervars

NextCards == \E card \in TrickDeck : ScCardPlayedAny(card)

SpecTrick == InitTrick /\ [][NextCards]_vars

(***************************************************************************)
(* SpecDD: double dummy results and their display in the History pane.     *)
(* A request is made with the deal d it is for; its result comes back to   *)
(* historyDDcallback(d, dd) at any later time and showDoubleDummy(d, dd)   *)
(* decides against the deal the <deal-viewer> shows at that time.          *)
(***************************************************************************)
\* The <deal-viewer> as the BBO application can render it: board number, the deal
\* shown, the seats whose hand is no longer complete because the tricks have been
\* played through, and the Pictures of Cards display.
ViewBoards == {1, 2}
ViewDeals == {"h1", "h2"}
Views ==
    { [def |-> TRUE, bnum |-> b, hand |-> h, played |-> pl, picturesOfCards |-> FALSE] :
         b \in ViewBoards, h \in ViewDeals, pl \in {{}, 0..3} }
    \cup { [def |-> TRUE, bnum |-> 1, hand |-> "h1", played |-> {},
            picturesOfCards |-> TRUE],
           [def |-> TRUE, bnum |-> 99, hand |-> "h1", played |-> {},
            picturesOfCards |-> FALSE],
           NoViewer }

\* the hand of seat i in a deal read from the viewer or sent with a request: the
\* hand as dealt, or what is left of it
HandOf(x, i) == <<x.hand, i, i \in x.played>>

\* d2.hand[i].length === 16: all 13 cards of seat i are shown
FullHand(v, i) == i \notin v.played

\* for (i=0; i<4; i++) { if (d2.hand[i].length === 16 && d.hand[i] !== d2.hand[i])
\*     { dealsMatch = false; break; } }
DealsMatch(d, v) ==
    \A i \in 0..3 : ~(FullHand(v, i) /\ HandOf(d, i) # HandOf(v, i))

\* if ( (d.bnum - bnum) % 16 !== 0 ): board numbers equivalent mod 16 pass
BoardNumberEquivalent(d, bnum) == (d.bnum - bnum) % BoardCycle = 0

\* showDoubleDummy(d, dd): "" stands for undefined (another attempt can be made),
\* 'done' for the table rendered, any other string for a refusal.
ShowDoubleDummy(d, v) ==
    IF ~v.def THEN ""
    ELSE IF v.picturesOfCards
    THEN "double dummy does not work with pictures of cards"
    ELSE IF ~BoardNumberEquivalent(d, v.bnum)
    THEN IF v.bnum = 99 THEN "" ELSE "board number does not match"
    ELSE IF ~DealsMatch(d, v) THEN "deals do not match"
    ELSE "done"

\* The BBO application renders another board, or another state of the board, in
\* the viewer.  A change of the board number fires historyBoardChange: the double
\* dummy table on display is hidden and the double dummy of the deal now shown
\* (getDealViaDOM) is requested.
ViewerRenders(v) ==
    /\ v # viewer
    /\ Cardinality(ddPending) < MaxPending
    /\ viewer' = v
    /\ IF viewer.def /\ v.def /\ v.bnum # viewer.bnum
       THEN /\ ddShown' = NoShown
            /\ ddPending' = ddPending \cup
                  {[def |-> TRUE, bnum |-> v.bnum, hand |-> v.hand, played |-> v.played]}
       ELSE UNCHANGED <<ddShown, ddPending>>
    /\ UNCHANGED <<deal, trick, table, context_id, saved, ndeals, last>>
    /\ UNCHANGED othervars

\* historyDDcallback(d, dd), one attempt of its loop: nothing if the fetch went
\* wrong (dd undefined); the table is rendered on 'done'; on undefined the callback
\* sleeps and tries again; any other response ends it.
HistoryDDcallback(d, dd) ==
    /\ d \in ddPending
    /\ LET response == ShowDoubleDummy(d, viewer) IN
       IF ~dd THEN ddPending' = ddPending \ {d} /\ UNCHANGED ddShown
       ELSE IF response = "done"
       THEN ddPending' = ddPending \ {d} /\ ddShown' = [def |-> TRUE, d |-> d]
       ELSE IF response = ""
       THEN UNCHANGED <<ddPending, ddShown>>
       ELSE ddPending' = ddPending \ {d} /\ UNCHANGED ddShown
    /\ UNCHANGED <<deal, trick, table, context_id, saved, ndeals, last, viewer>>
    /\ UNCHANGED othervars

\* historyDDcallback: 'unable to render' after maxTries attempts
HistoryDDGiveUp(d) ==
    /\ d \in ddPending
    /\ ShowDoubleDummy(d, viewer) = ""
    /\ ddPending' = ddPending \ {d}
    /\ UNCHANGED <<deal, trick, table, context_id, saved, ndeals, last, viewer, ddShown>>
    /\ UNCHANGED othervars

\* showDoubleDummy(d, dd) up to 'let d2 = await getDealViaDOM(d.source)': the
\* viewer is there, shows no pictures of cards and its board number has passed
\* the test; getDealViaDOM() sleeps because the board is not fully rendered.
ShowDoubleDummyAwaits(d) ==
    /\ d \in ddPending
    /\ ddChecked = {}
    /\ viewer.def /\ ~viewer.picturesOfCards
    /\ BoardNumberEquivalent(d, viewer.bnum)
    /\ ddPending' = ddPending \ {d}
    /\ ddChecked' = {d}
    /\ UNCHANGED <<deal, trick, table, context_id, saved, ndeals, last, viewer, ddShown>>
    /\ UNCHANGED <<atTable, injected, socket, fetch>>

\* showDoubleDummy(d, dd) from the return of getDealViaDOM(): d2 is the deal the
\* viewer shows now (undefined without a viewer: d2.hand throws); the hands are
\* compared and the table is rendered.
ShowDoubleDummyResumes(d) ==
    /\ d \in ddChecked
    /\ ddChecked' = {}
    /\ ddShown' = IF viewer.def
                  THEN IF DealsMatch(d, viewer) THEN [def |-> TRUE, d |-> d] ELSE ddShown
                  ELSE ddShown
    /\ UNCHANGED <<deal, trick, table, context_id, saved, ndeals, last, viewer, ddPending>>
    /\ UNCHANGED <<atTable, injected, socket, fetch>>

\* the tables where the board's double dummy is displayed when the board ends
DDTableMsgs == {m \in TableMsgs : m.type = "100" \/ m.style = "teaching"}

NextDD ==
    \/ \E m \in DDTableMsgs : ScTableNode(m)
    \/ \E m \in DealMsgs, f \in BOOLEAN : ScDeal(MaxDeals, m[1], m[2], f)
    \/ ScDealBlastComplete
    \/ ScCallMade(Pass)
    \/ \E v \in Views : ViewerRenders(v)
    \/ \E d \in ddPending, dd \in BOOLEAN : HistoryDDcallback(d, dd)
    \/ \E d \in ddPending : HistoryDDGiveUp(d)

SpecDD == Init /\ [][NextDD]_vars

(***************************************************************************)
(* SpecView: the History pane alone.  The viewer moves from board to       *)
(* board, each change of the board number requests a double dummy result,  *)
(* and showDoubleDummy() may be suspended in getDealViaDOM().              *)
(***************************************************************************)
NextView ==
    \/ \E v \in Views : ViewerRenders(v)
    \/ \E d \in ddPending, dd \in BOOLEAN : HistoryDDcallback(d, dd)
    \/ \E d \in ddPending : HistoryDDGiveUp(d)
    \/ \E d \in ddPending : ShowDoubleDummyAwaits(d)
    \/ \E d \in ddChecked : ShowDoubleDummyResumes(d)

SpecView == Init /\ [][NextView]_vars

(***************************************************************************)
(* The card recommendation of the bot (SimpleAI): get_legal_cards and      *)
(* best_card.  A hand is a list of cards; NoCard stands for None.          *)
(***************************************************************************)
NoCard == <<>>

\* every card of the hand, whatever was led
GetLegalCardsAnySuit(hand, led_suit) == hand

\* if not led_suit: return hand; same_suit = [c for c in hand if c[0] == led_suit];
\* return same_suit if same_suit else hand
GetLegalCards(hand, led_suit) ==
    LET IsLed(c)  == c[1] = led_suit
        same_suit == SelectSeq(hand, IsLed)
    IN  IF led_suit = "" THEN hand
        ELSE IF same_suit # <<>> THEN same_suit ELSE hand

\* RANK_ORDER.index(card[1]) if len(card) == 2 else 0
CardValue(card) == IF Len(card) = 2 THEN IndexOf(rankorder, card[2]) ELSE 0

\* best_card: None without a legal card, the only legal card, or
\* max(legal_cards, key=card_value), the first card of the highest value
BestCard(hand, legal_cards) ==
    IF legal_cards = <<>> THEN NoCard
    ELSE IF Len(legal_cards) = 1 THEN legal_cards[1]
    ELSE LET top == {i \in 1..Len(legal_cards) :
                       \A j \in 1..Len(legal_cards) :
                          CardValue(legal_cards[j]) <= CardValue(legal_cards[i])}
         IN  legal_cards[MinOf(top)]

\* legal = get_legal_cards(hand, led_suit); card = best_card(hand, legal, ...)
Recommend(hand, led_suit) == BestCard(hand, GetLegalCards(hand, led_suit))

(***************************************************************************)
(* The events forwarded to the bot for an action: sc_call_made sends one   *)
(* bid_made and sc_card_played one card_played event when they record the  *)
(* action; cs_make_bid and cs_play_card, the user's own call and card,     *)
(* record the action and call sendGameEvent nowhere.                       *)
(***************************************************************************)
EventsForwarded(mtype, d) ==
    IF mtype = "sc_call_made" THEN (IF CallIgnored(d) THEN 0 ELSE 1)
    ELSE IF mtype = "sc_card_played"
    THEN (IF d.def THEN (IF CardAccepted(d) THEN 1 ELSE 0) ELSE 0)
    ELSE 0

(***************************************************************************)
(* processWebsocket has no try/catch: a handler that reads a property of   *)
(* app.deal while app.deal is undefined ends the processing of the message *)
(* in a TypeError.  Aborts: the handler of the message type ends so on the *)
(* deal d (and, for a card, on what trickcard() does with it).             *)
(***************************************************************************)
EventTypes == {"sc_call_made", "sc_card_played", "cs_make_bid", "cs_play_card",
               "sc_deal_blast_complete", "sc_claim_accepted", "sc_undo"}

\* trickcard(): app.deal.blast1_complete on no deal; auctionContract() on an
\* auction without a bid at the opening lead
TrickCardAborts(d) ==
    IF ~d.def THEN TRUE
    ELSE IF d.seenOpeningLead THEN FALSE
    ELSE AuctionContract([d EXCEPT !.play = Append(@, <<"S", "2">>)]).threw

Aborts(mtype, d) ==
    IF mtype = "sc_call_made" THEN FALSE           \* app.deal === undefined: return
    ELSE IF mtype = "sc_card_played"               \* && app.deal !== undefined
    THEN IF d.def THEN (IF CardAccepted(d) THEN TrickCardAborts(d) ELSE FALSE)
         ELSE FALSE
    ELSE IF mtype = "cs_play_card" THEN TrickCardAborts(d)
    ELSE IF mtype = "cs_make_bid" THEN ~d.def      \* app.deal.lastActionTime
    ELSE IF mtype = "sc_deal_blast_complete" THEN ~d.def   \* app.deal.reseating
    ELSE IF mtype = "sc_claim_accepted" THEN ~d.def        \* app.deal.board
    ELSE ~d.def                                    \* undo(): app.deal.actionTime

(***************************************************************************)
(* SpecAuction: every auction the table can produce from a small set of    *)
(* calls (bids of three strains, double, redouble), for each dealer, up to *)
(* the opening lead.                                                       *)
(***************************************************************************)
\* the bids of the auctions, lowest first
AuctionBidOrder == << <<"1","H">>, <<"1","S">>, <<"1","N">>, <<"2","H">>, <<"2","S">> >>
Double == <<"d">>
Redouble == <<"r">>
AuctionCalls == {AuctionBidOrder[i] : i \in 1..Len(AuctionBidOrder)}
                   \cup {Pass, Double, Redouble}

\* 0-based index of the last call that is not a pass, -1 if there is none
LastActionIndex(au) ==
    LET acts == {i \in 0..(Len(au)-1) : au[i+1] # Pass} IN
    IF acts = {} THEN -1 ELSE MaxOf(acts)

\* 0-based index of the last bid, -1 if there is none
LastBidIndex(au) ==
    LET bids == {i \in 0..(Len(au)-1) : Len(au[i+1]) = 2} IN
    IF bids = {} THEN -1 ELSE MaxOf(bids)

\* The rules of the auction, which the table enforces: a bid outranks the last
\* bid; a double is of the opponents' bid, a redouble of the opponents' double.
LegalCall(au, call) ==
    LET la == LastActionIndex(au)
        lb == LastBidIndex(au)
        byOpponent == IF la >= 0 THEN (Len(au) - la) % 2 = 1 ELSE FALSE
    IN  IF call = Pass THEN TRUE
        ELSE IF call = Double
        THEN IF la >= 0 THEN Len(au[la+1]) = 2 /\ byOpponent ELSE FALSE
        ELSE IF call = Redouble
        THEN IF la >= 0 THEN au[la+1] = Double /\ byOpponent ELSE FALSE
        ELSE IF lb >= 0
        THEN IndexOf(AuctionBidOrder, call) > IndexOf(AuctionBidOrder, au[lb+1])
        ELSE TRUE

\* a new deal at a social table after its deal blast, for each dealer
InitAuction ==
    /\ \E dl \in {"s", "w", "n", "e"} :
          deal = [FreshDeal("1", SocialTable.table_id, "h1", 1) EXCEPT
                     !.dealer = dl, !.blast1_complete = TRUE]
    /\ trick = NoTrick
    /\ table = SocialTable
    /\ context_id = SocialTable.context_id
    /\ saved = [i \in 1..MaxDeals |-> 0]
    /\ ndeals = 1
    /\ last = NoMsg
    /\ ddPending = {}
    /\ viewer = NoViewer
    /\ ddShown = NoShown
    /\ atTable = NoAtTable
    /\ injected = NoInjected
    /\ ddChecked = {}
    /\ socket = NoSocket
    /\ fetch = NoFetch

\* sc_call_made with the next call of the auction
ScCallMadeAny(call) ==
    /\ deal.def /\ deal.play = <<>>
    /\ Len(deal.auction) < MaxAuction
    /\ IF Len(deal.auction) >= 4 THEN AuctionIncomplete(deal.auction) ELSE TRUE
    /\ LegalCall(deal.auction, call)
    /\ LET r == HandleCall(deal, saved, call) IN
       /\ deal' = r.deal /\ saved' = r.saved
       /\ ddPending' = IF r.ended THEN DisplayRequest(r.deal, ddPending)
                       ELSE ddPending
    /\ UNCHANGED <<trick, table, context_id, ndeals, last>>
    /\ UNCHANGED <<viewer, ddShown>>
    /\ UNCHANGED othervars

\* sc_card_played with the opening lead, once the auction has ended in a contract
ScOpeningLead ==
    /\ deal.def /\ deal.play = <<>>
    /\ HasContract(deal.auction)
    /\ LET r == HandleCard(deal, trick, saved, NextCard) IN
       /\ deal' = r.deal /\ trick' = r.trick /\ saved' = r.saved
       /\ ddPending' = LastCardRequest(r, ddPending)
    /\ UNCHANGED <<table, context_id, ndeals, last>>
    /\ UNCHANGED <<viewer, ddShown>>
    /\ UNCHANGED othervars

NextAuction ==
    \/ \E call \in AuctionCalls : ScCallMadeAny(call)
    \/ ScOpeningLead

SpecAuction == InitAuction /\ [][NextAuction]_vars

(***************************************************************************)
(* injectedbbo.js: websocketReceive, processAuctionCall and the send()     *)
(* override of injectedsniffers.js keep a second app.deal in the page.     *)
(* Each operator returns the new app.deal and whether the handler threw    *)
(* (error): a statement that throws leaves the later statements undone.    *)
(***************************************************************************)
\* app.deal = stuffAttributes(...); auction = []; auctionOpenIx = -1; ncardsPlayed = 0
InjectedDeal ==
    [def |-> TRUE, auction |-> <<>>, auctionOpenIx |-> -1, ncardsPlayed |-> 0]

\* sc_card_played, and cs_play_card in send(): app.deal.ncardsPlayed++ with no
\* test of app.deal
InjectedCard(j) ==
    IF j.def THEN [deal |-> [j EXCEPT !.ncardsPlayed = @ + 1], error |-> FALSE]
    ELSE [deal |-> j, error |-> TRUE]

\* the push of a call and the index of the opening bid
InjectedPush(j, call) ==
    [j EXCEPT !.auction = Append(@, call),
              !.auctionOpenIx = IF @ = -1 /\ Len(call) = 2 THEN Len(j.auction) ELSE @]

\* else if (mtype === 'sc_call_made' && app.deal !== undefined)
InjectedCall(j, call) ==
    IF j.def THEN [deal |-> InjectedPush(j, call), error |-> FALSE]
    ELSE [deal |-> j, error |-> FALSE]

\* processAuctionCall(msg) for cs_make_bid: no test of app.deal
ProcessAuctionCall(j, call) ==
    IF j.def THEN [deal |-> InjectedPush(j, call), error |-> FALSE]
    ELSE [deal |-> j, error |-> TRUE]

\* the sc_undo branch: setting auction.length to a negative number throws a
\* RangeError, before ncardsPlayed is reset
InjectedUndo(j, count, star) ==
    LET undoCount == UndoCount(count, star)
        nCallsUndone == undoCount - j.ncardsPlayed
        keep == Len(j.auction) - nCallsUndone
    IN  IF ~j.def THEN [deal |-> j, error |-> TRUE]
        ELSE IF j.ncardsPlayed >= undoCount
        THEN [deal |-> [j EXCEPT !.ncardsPlayed = @ - undoCount], error |-> FALSE]
        ELSE IF keep < 0 THEN [deal |-> j, error |-> TRUE]
        ELSE [deal |-> [j EXCEPT !.auction = Truncate(@, keep),
                                 !.ncardsPlayed = 0,
                                 !.auctionOpenIx = IF @ > keep - 1 THEN -1 ELSE @],
              error |-> FALSE]

(***************************************************************************)
(* SpecTwin: one board at a social table, fed to both trackers.  atTable   *)
(* is what the table has done: its auction, its play, and where the recap  *)
(* of a deal sent again to the dummy stands (phase "recap": replay counts  *)
(* the recap messages sent; phase "lead": the recap is over and the        *)
(* opening lead is sent again).  dummy: the user is the dummy of the       *)
(* contract being played; a rollback into the auction ends that.           *)
(* resends counts the deals sent again.                                    *)
(***************************************************************************)
TwinHand == "h2"
TwinBoard == "2"

\* after sc_table_node, sc_deal and sc_deal_blast_complete
InitTwin ==
    /\ deal = [FreshDeal(TwinBoard, SocialTable.table_id, TwinHand, 1) EXCEPT
                  !.blast1_complete = TRUE]
    /\ trick = NoTrick
    /\ table = SocialTable
    /\ context_id = SocialTable.context_id
    /\ saved = [i \in 1..MaxDeals |-> 0]
    /\ ndeals = 1
    /\ last = NoMsg
    /\ ddPending = {}
    /\ viewer = NoViewer
    /\ ddShown = NoShown
    /\ atTable = NoAtTable
    /\ injected = InjectedDeal
    /\ ddChecked = {}
    /\ socket = NoSocket
    /\ fetch = NoFetch

TableLive == table.def /\ atTable.phase = "live"

TableCallExpected(call) ==
    /\ TableLive
    /\ AuctionIncomplete(atTable.auction)
    /\ Len(atTable.auction) < MaxCalls
    /\ Sufficient(atTable.auction, call)

TableCardExpected ==
    /\ TableLive
    /\ HasContract(atTable.auction)
    /\ Len(atTable.play) < NumCards

TableCard == CardAt(TwinHand, Len(atTable.play) + 1)

\* a call by another player: <sc_call_made>
TwinCallMade(call) ==
    /\ TableCallExpected(call)
    /\ atTable' = [atTable EXCEPT !.auction = Append(@, call)]
    /\ LET r == HandleCall(deal, saved, call) IN
       /\ deal' = r.deal /\ saved' = r.saved
       /\ ddPending' = IF r.ended THEN DisplayRequest(r.deal, ddPending)
                       ELSE ddPending
    /\ injected' = InjectedCall(injected, call).deal
    /\ last' = NoMsg
    /\ UNCHANGED <<trick, table, context_id, ndeals, viewer, ddShown, ddChecked, socket, fetch>>

\* a call by the user: cs_make_bid
TwinMakeBid(call) ==
    /\ TableCallExpected(call)
    /\ deal.def
    /\ atTable' = [atTable EXCEPT !.auction = Append(@, call)]
    /\ LET r == RecordCall(deal, saved, call) IN
       /\ deal' = r.deal /\ saved' = r.saved
       /\ ddPending' = IF r.ended THEN DisplayRequest(r.deal, ddPending)
                       ELSE ddPending
    /\ injected' = ProcessAuctionCall(injected, call).deal
    /\ last' = NoMsg
    /\ UNCHANGED <<trick, table, context_id, ndeals, viewer, ddShown, ddChecked, socket, fetch>>

\* The user is dummy: the opening lead has been made and the deal is sent again,
\* with all four hands.
TwinBecomeDummy ==
    /\ TableLive /\ deal.def
    /\ HasContract(atTable.auction) /\ atTable.play = <<>> /\ ~atTable.dummy
    /\ atTable.resends < MaxResend
    /\ atTable' = [atTable EXCEPT !.play = <<TableCard>>, !.phase = "recap",
                                  !.replay = 0, !.dummy = TRUE, !.resends = @ + 1]
    /\ deal' = [deal EXCEPT !.south = TwinHand, !.amDummy = TRUE]
    /\ injected' = InjectedDeal
    /\ last' = Msg("sc_deal", 0, TwinBoard, FALSE)
    /\ UNCHANGED <<trick, table, context_id, saved, ndeals>>
    /\ UNCHANGED ddvars /\ UNCHANGED <<ddChecked, socket, fetch>>

\* the recap: the calls of the auction, in order
TwinRecapCall ==
    /\ atTable.phase = "recap" /\ atTable.replay < Len(atTable.auction)
    /\ atTable' = [atTable EXCEPT !.replay = @ + 1]
    /\ LET call == atTable.auction[atTable.replay + 1]
           r == HandleCall(deal, saved, call) IN
       /\ deal' = r.deal /\ saved' = r.saved
       /\ ddPending' = IF r.ended THEN DisplayRequest(r.deal, ddPending)
                       ELSE ddPending
       /\ injected' = InjectedCall(injected, call).deal
    /\ last' = NoMsg
    /\ UNCHANGED <<trick, table, context_id, ndeals, viewer, ddShown, ddChecked, socket, fetch>>

\* the recap: the opening lead
TwinRecapLead ==
    /\ atTable.phase = "recap" /\ atTable.replay = Len(atTable.auction)
    /\ atTable' = [atTable EXCEPT !.replay = @ + 1]
    /\ LET r == HandleCard(deal, trick, saved, atTable.play[1]) IN
       /\ deal' = r.deal /\ trick' = r.trick /\ saved' = r.saved
       /\ ddPending' = LastCardRequest(r, ddPending)
    /\ injected' = InjectedCard(injected).deal
    /\ last' = NoMsg
    /\ UNCHANGED <<table, context_id, ndeals, viewer, ddShown, ddChecked, socket, fetch>>

\* <sc_deal_blast_complete> ends the recap
TwinBlastComplete ==
    /\ atTable.phase = "recap" /\ atTable.replay = Len(atTable.auction) + 1
    /\ atTable' = [atTable EXCEPT !.phase = "lead"]
    /\ deal' = IF ~deal.blast1_complete THEN [deal EXCEPT !.blast1_complete = TRUE]
               ELSE [deal EXCEPT !.blast2_complete = TRUE]
    /\ last' = NoMsg
    /\ UNCHANGED <<trick, table, context_id, saved, ndeals, injected>>
    /\ UNCHANGED ddvars /\ UNCHANGED <<ddChecked, socket, fetch>>

\* the opening lead, sent again after the recap
TwinLeadAgain ==
    /\ atTable.phase = "lead"
    /\ atTable' = [atTable EXCEPT !.phase = "live"]
    /\ LET r == HandleCard(deal, trick, saved, atTable.play[1]) IN
       /\ deal' = r.deal /\ trick' = r.trick /\ saved' = r.saved
       /\ ddPending' = LastCardRequest(r, ddPending)
    /\ injected' = InjectedCard(injected).deal
    /\ last' = NoMsg
    /\ UNCHANGED <<table, context_id, ndeals, viewer, ddShown, ddChecked, socket, fetch>>

\* a card by another player: <sc_card_played>
TwinCardPlayed ==
    /\ TableCardExpected /\ deal.def
    /\ atTable' = [atTable EXCEPT !.play = Append(@, TableCard)]
    /\ LET r == HandleCard(deal, trick, saved, TableCard) IN
       /\ deal' = r.deal /\ trick' = r.trick /\ saved' = r.saved
       /\ ddPending' = LastCardRequest(r, ddPending)
    /\ injected' = InjectedCard(injected).deal
    /\ last' = NoMsg
    /\ UNCHANGED <<table, context_id, ndeals, viewer, ddShown, ddChecked, socket, fetch>>

\* a card by the user: cs_play_card (never the opening lead of a dummy)
TwinPlayCard ==
    /\ TableCardExpected /\ deal.def /\ ~atTable.dummy
    /\ atTable' = [atTable EXCEPT !.play = Append(@, TableCard)]
    /\ LET r == HandleCsPlayCard(deal, trick, saved, CsPlayCardMsg(TableCard)) IN
       /\ deal' = r.deal /\ trick' = r.trick /\ saved' = r.saved
       /\ ddPending' = LastCardRequest(r, ddPending)
    /\ injected' = InjectedCard(injected).deal
    /\ last' = NoMsg
    /\ UNCHANGED <<table, context_id, ndeals, viewer, ddShown, ddChecked, socket, fetch>>

\* <sc_undo> of count actions made at the table
TwinUndo(count) ==
    /\ TableLive /\ deal.def
    /\ count <= Len(atTable.auction) + Len(atTable.play)
    /\ atTable' =
          IF count <= Len(atTable.play)
          THEN [atTable EXCEPT !.play = Truncate(@, Len(@) - count)]
          ELSE [atTable EXCEPT !.play = <<>>, !.dummy = FALSE,
                   !.auction = Truncate(@, Len(@) - (count - Len(atTable.play)))]
    /\ LET r == UndoOp(deal, trick, count, FALSE) IN
       /\ deal' = r.deal /\ trick' = r.trick
       /\ last' = Msg("sc_undo", count, "", r.error)
    /\ injected' = InjectedUndo(injected, count, FALSE).deal
    /\ UNCHANGED <<table, context_id, saved, ndeals>>
    /\ UNCHANGED ddvars /\ UNCHANGED <<ddChecked, socket, fetch>>

\* <sc_table_close>: the user leaves the table
TwinTableClose ==
    /\ TableLive /\ deal.def
    /\ deal' = NoDeal /\ saved' = SaveDealTiming(deal, saved).saved
    /\ injected' = NoInjected
    /\ atTable' = [NoAtTable EXCEPT !.phase = "closed"]
    /\ last' = NoMsg
    /\ UNCHANGED <<trick, table, context_id, ndeals>>
    /\ UNCHANGED ddvars /\ UNCHANGED <<ddChecked, socket, fetch>>

TwinUndoCounts == 1..MaxUndo

NextTwin ==
    \/ \E call \in Calls : TwinCallMade(call)
    \/ \E call \in Calls : TwinMakeBid(call)
    \/ TwinBecomeDummy
    \/ TwinRecapCall
    \/ TwinRecapLead
    \/ TwinBlastComplete
    \/ TwinLeadAgain
    \/ TwinCardPlayed
    \/ TwinPlayCard
    \/ \E count \in TwinUndoCounts : TwinUndo(count)
    \/ TwinTableClose

SpecTwin == InitTwin /\ [][NextTwin]_vars

(***************************************************************************)
(* injectedsniffers.js: the 'message' listener of the WebSocket.  Bytes    *)
(* are strings: "a" and "b" are ASCII characters, Lead and Cont the two    *)
(* bytes of one UTF-8 encoded character, Nul the byte that ends a message. *)
(***************************************************************************)
Nul == "00"
Lead == "C3"
Cont == "A9"
TwoByteChar == "e9"           \* the character encoded as Lead, Cont
Replacement == "FFFD"         \* U+FFFD, decoded from bytes that are no character

\* new TextDecoder().decode(view): each frame is decoded on its own (no stream
\* option), so a lead byte without its continuation and a continuation byte
\* without its lead each decode to U+FFFD
RECURSIVE Decode(_)
Decode(bytes) ==
    IF bytes = <<>> THEN <<>>
    ELSE IF bytes[1] = Lead
    THEN IF Len(bytes) >= 2
         THEN IF bytes[2] = Cont THEN <<TwoByteChar>> \o Decode(Tail(Tail(bytes)))
              ELSE <<Replacement>> \o Decode(Tail(bytes))
         ELSE <<Replacement>>
    ELSE IF bytes[1] = Cont THEN <<Replacement>> \o Decode(Tail(bytes))
    ELSE <<bytes[1]>> \o Decode(Tail(bytes))

\* utf8.split('\x00'): the pieces between the NUL characters, one more than
\* there are NULs
RECURSIVE Split(_)
Split(text) ==
    LET nuls == {i \in 1..Len(text) : text[i] = Nul} IN
    IF nuls = {} THEN <<text>>
    ELSE LET i == MinOf(nuls) IN
         <<SubSeq(text, 1, i - 1)>> \o Split(SubSeq(text, i + 1, Len(text)))

\* the listener on one frame: the text held back is put in front, the last piece
\* is held back (msg.pop()), and every other piece is sent to the content script
\* (sniffer_ws_receive) and to websocketReceive() of the injected script
Listener(sk, frame) ==
    LET utf8 == sk.incompleteMessage \o Decode(frame)
        msg == Split(utf8)
        whole == SubSeq(msg, 1, Len(msg) - 1)
    IN  [sk EXCEPT !.incompleteMessage = msg[Len(msg)],
                   !.toContent = @ \o whole,
                   !.toInjected = @ \o whole]

(***************************************************************************)
(* SpecSocket: the server sends up to MaxMsgs messages, each ended by NUL, *)
(* and the stream reaches the listener cut into frames at any byte.        *)
(***************************************************************************)
SocketMsgs == { <<"a">>, <<"a", Lead, Cont>>, <<Lead, Cont, "b">> }

RECURSIVE Streams(_)
Streams(n) ==
    IF n = 0 THEN {<<>>}
    ELSE {m \o <<Nul>> \o s : m \in SocketMsgs, s \in Streams(n - 1)}

InitSocket ==
    /\ deal = NoDeal
    /\ trick = NoTrick
    /\ table = NoTable
    /\ context_id = 0
    /\ saved = [i \in 1..MaxDeals |-> 0]
    /\ ndeals = 0
    /\ last = NoMsg
    /\ ddPending = {}
    /\ viewer = NoViewer
    /\ ddShown = NoShown
    /\ atTable = NoAtTable
    /\ injected = NoInjected
    /\ ddChecked = {}
    /\ \E n \in 1..MaxMsgs : \E s \in Streams(n) :
          socket = [NoSocket EXCEPT !.stream = s, !.rest = s]
    /\ fetch = NoFetch

\* a frame of n bytes arrives
WsMessage(n) ==
    /\ n <= Len(socket.rest)
    /\ socket' = [Listener(socket, SubSeq(socket.rest, 1, n)) EXCEPT
                     !.rest = SubSeq(socket.rest, n + 1, Len(socket.rest))]
    /\ UNCHANGED <<deal, trick, table, context_id, saved, ndeals, last>>
    /\ UNCHANGED ddvars
    /\ UNCHANGED <<atTable, injected, ddChecked, fetch>>

NextSocket == \E n \in 1..MaxFrame : WsMessage(n)

SpecSocket == InitSocket /\ [][NextSocket]_vars

(***************************************************************************)
(* fetchdeals(ids, dv, callback) of the My Hands page: the ids are         *)
(* 0..nhands-1, inflight the requests sent and not completed.  A request   *)
(* completes (loadend) with a <lin err="0"> answer ("lin"), with a failure *)
(* the code counts ("failed": a status other than 200, a timeout or        *)
(* err # "0"), or with status 200 and a body without a <lin> element       *)
(* ("nolin": getElementsByTagName('lin')[0] is undefined and               *)
(* l.getAttribute throws).                                                 *)
(***************************************************************************)
maxConnections == 8
Outcomes == {"lin", "failed", "nolin"}

\* let nInitial = nhands < maxConnections ? nhands : maxConnections
NInitial(nhands) == IF nhands < maxConnections THEN nhands ELSE maxConnections

\* parseResponse(e): does it return, and does it count a failure
ParseResponseThrows(outcome) == outcome = "nolin"
ParseResponseFails(outcome) == outcome = "failed"

InitFetch ==
    /\ deal = NoDeal
    /\ trick = NoTrick
    /\ table = NoTable
    /\ context_id = 0
    /\ saved = [i \in 1..MaxDeals |-> 0]
    /\ ndeals = 0
    /\ last = NoMsg
    /\ ddPending = {}
    /\ viewer = NoViewer
    /\ ddShown = NoShown
    /\ atTable = NoAtTable
    /\ injected = NoInjected
    /\ ddChecked = {}
    /\ socket = NoSocket
    /\ fetch = NoFetch

\* fetchdeals() up to its return: the callback at once if every id is cached
\* (also when there is no id), the first nInitial requests otherwise
Fetchdeals(nhands, allCached) ==
    /\ fetch.phase = "idle"
    /\ nhands = 0 => allCached
    /\ fetch' = IF allCached
                THEN [fetch EXCEPT !.phase = "cached", !.nhands = nhands,
                                   !.callbacks = @ + 1]
                ELSE [fetch EXCEPT !.phase = "fetching", !.nhands = nhands,
                                   !.inflight = 0..(NInitial(nhands) - 1),
                                   !.ixFetch = NInitial(nhands) - 1]
    /\ UNCHANGED <<deal, trick, table, context_id, saved, ndeals, last>>
    /\ UNCHANGED ddvars
    /\ UNCHANGED <<atTable, injected, ddChecked, socket>>

\* XHTTPcompletion(e) for the request of id i
XHTTPcompletion(i, outcome) ==
    /\ fetch.phase = "fetching"
    /\ i \in fetch.inflight
    /\ LET ixFetch == fetch.ixFetch + 1
           nFetched == fetch.nFetched + 1
           next == IF ixFetch < fetch.nhands THEN {ixFetch} ELSE {}
       IN  fetch' = [fetch EXCEPT
                        !.ixFetch = ixFetch,
                        !.nFetched = nFetched,
                        !.inflight = (@ \ {i}) \cup next,
                        !.nFailed = IF ParseResponseFails(outcome) THEN @ + 1 ELSE @,
                        !.callbacks = IF ParseResponseThrows(outcome) THEN @
                                      ELSE IF nFetched # fetch.nhands THEN @
                                      ELSE @ + 1]
    /\ UNCHANGED <<deal, trick, table, context_id, saved, ndeals, last>>
    /\ UNCHANGED ddvars
    /\ UNCHANGED <<atTable, injected, ddChecked, socket>>

NextFetch ==
    \/ \E n \in 0..MaxIds, c \in BOOLEAN : Fetchdeals(n, c)
    \/ \E i \in 0..(MaxIds - 1), o \in Outcomes : XHTTPcompletion(i, o)

SpecFetch == InitFetch /\ [][NextFetch]_vars

(***************************************************************************)
(* Properties of undo                                                      *)
(***************************************************************************)
\* the deal's recorded actions: calls plus card plays
Actions(d) == Len(d.auction) + Len(d.play)

\* C1: an Undo whose count exceeds the number of actions recorded since the deal
\* started (calls plus card plays) is rejected: the deal (auction, play record,
\* completed tricks, contract, declarer, timing list) and the in-progress trick
\* are exactly what they were before the message.  Stated of the handler at
\* every reachable state, for every <sc_undo> the table can send there.
C1_UndoExceedsRejected ==
    deal.def =>
       \A u \in UndoMsgs :
          UndoCount(u[1], u[2]) > Actions(deal) =>
             LET r == UndoOp(deal, trick, u[1], u[2]) IN
             r.error /\ r.deal = deal /\ r.trick = trick

\* an undo was just rejected during play, with a completed trick and a card of
\* the next one on record
C1_RejectedDuringPlay ==
    /\ last.op = "sc_undo" /\ last.error
    /\ deal.def /\ last.count > Actions(deal)
    /\ deal.seenOpeningLead /\ Len(deal.tricks) >= 1 /\ Len(trick.cards) >= 1

\* the last k recorded actions of a deal, in the order they were made
LastEvents(d, k) ==
    LET calls == [i \in 1..Len(d.auction) |-> <<"call", d.auction[i]>>]
        cards == [i \in 1..Len(d.play) |-> <<"card", d.play[i]>>]
        all   == calls \o cards
    IN  SubSeq(all, Len(all) - k + 1, Len(all))

\* the table sends the events again: each goes through its handler
RECURSIVE Replay(_, _, _, _)
Replay(d, t, sv, events) ==
    IF events = <<>> THEN [deal |-> d, trick |-> t]
    ELSE LET e == Head(events)
             r == IF e[1] = "call"
                  THEN [deal |-> HandleCall(d, sv, e[2]).deal, trick |-> t,
                        saved |-> HandleCall(d, sv, e[2]).saved, ended |-> FALSE]
                  ELSE HandleCard(d, t, sv, e[2])
         IN  Replay(r.deal, r.trick, r.saved, Tail(events))

\* The state of the tracker's state machine.  The code keeps no state field: a
\* deal is Complete once its timing has been handed over or it was passed out,
\* Auctioning while its auction is open, Playing in between.
MachineState(d) ==
    IF ~d.def THEN "AwaitingDeal"
    ELSE IF d.timingSaved THEN "Complete"
    ELSE IF AuctionIncomplete(d.auction) THEN "Auctioning"
    ELSE IF HasContract(d.auction) THEN "Playing"
    ELSE "Complete"

\* structural equality of two deal states (dummy is declarer's partner)
SameDealState(d1, t1, d2, t2) ==
    /\ d1.auction = d2.auction /\ d1.play = d2.play
    /\ d1.tricks = d2.tricks /\ t1 = t2
    /\ d1.contract = d2.contract /\ d1.denom = d2.denom
    /\ d1.declarer = d2.declarer
    /\ MachineState(d1) = MachineState(d2)

\* the tracker is following the table: not inside the recap of a deal sent again
\* (dummy, reseating), where the handlers drop the table's events
Following(d) == d.def /\ ~d.reseating /\ CardAccepted(d)

C3_RollbackClearsContract ==
    [][\A u \in UndoMsgs :
          ( /\ ScUndo(u[1], u[2])
            /\ deal.seenOpeningLead /\ MachineState(deal) = "Playing"
            /\ UndoCount(u[1], u[2]) > Len(deal.play)
            /\ UndoCount(u[1], u[2]) <= Actions(deal) )
          => ( /\ MachineState(deal') = "Auctioning"
               /\ deal'.contract = <<"undefined">>
               /\ deal'.denom = "undefined"
               /\ deal'.declarer = Undef )]_vars

\* the completed tricks followed by the trick in progress
AllTricks(d, t) == Append(d.tricks, t)

\* C4: an Undo whose count k does not exceed the cards played removes the last k
\* cards played: the play record loses them, the trick in progress loses its
\* last cards first, and each time it is empty with cards still to remove the
\* most recent completed trick is popped and becomes the trick in progress,
\* with its original leader.  Of n cards left, the first n \div 4 tricks stay
\* complete and the next one holds its first n % 4 cards (3 after undoing the
\* card that completed it).
C4_UndoWithinPlay ==
    (deal.def /\ deal.seenOpeningLead) =>
       \A k \in 1..Len(deal.play) :
          LET u   == UndoOp(deal, trick, k, FALSE)
              all == AllTricks(deal, trick)
              n   == Len(deal.play) - k
              m   == n \div TrickSize
          IN  /\ ~u.error
              /\ u.deal.auction = deal.auction
              /\ u.deal.play = SubSeq(deal.play, 1, n)
              /\ u.deal.tricks = SubSeq(all, 1, m)
              /\ u.trick = [leader |-> all[m+1].leader,
                            cards  |-> SubSeq(all[m+1].cards, 1, n % TrickSize)]

\* an undo of two cards has just reopened the first trick: the card led to the
\* second trick and the fourth card of the first are gone
C4_TrickReopened ==
    /\ last.op = "sc_undo" /\ ~last.error /\ last.count = 2
    /\ deal.def /\ deal.seenOpeningLead
    /\ Len(deal.play) = 3 /\ deal.tricks = <<>>
    /\ trick.cards = deal.play
    /\ trick.leader = SeatPlus(deal.declarer, 1)

\* The winner of a complete trick by the rules of the game: the highest trump if
\* a trump was played, else the highest card of the suit led.  The position
\* (1..4) of the winning card.
WinningCard(cards, trump) ==
    LET trumps == {i \in 1..TrickSize : Suit(cards[i]) = trump}
        led    == {i \in 1..TrickSize : Suit(cards[i]) = Suit(cards[1])}
        pool   == IF trumps # {} THEN trumps ELSE led
    IN  CHOOSE i \in pool : \A j \in pool : Rank(cards[j]) <= Rank(cards[i])

Winner(t, trump) == (t.leader + WinningCard(t.cards, trump) - 1) % 4

\* C9: during play, after any card plays and undos, the first trick is led by
\* the opening leader (the seat after declarer) and every later trick,
\* the one in progress included, is led by the winner of the trick before it.
C9_TrickLeaders ==
    (deal.def /\ deal.seenOpeningLead) =>
       LET all == AllTricks(deal, trick) IN
       /\ all[1].leader = (deal.declarer + 1) % 4
       /\ \A i \in 1..(Len(all) - 1) :
             /\ Len(all[i].cards) = TrickSize
             /\ all[i+1].leader = Winner(all[i], deal.denom)

\* an undo has just taken a card back from the second trick, which is led by
\* the winner of the first and not by its leader
C9_SecondTrickAfterUndo ==
    /\ last.op = "sc_undo" /\ ~last.error /\ last.count >= 1
    /\ deal.def /\ deal.seenOpeningLead
    /\ Len(deal.tricks) = 1 /\ Len(trick.cards) >= 1
    /\ trick.leader = Winner(deal.tricks[1], deal.denom)
    /\ trick.leader # deal.tricks[1].leader

(***************************************************************************)
(* Properties of the life of a deal                                        *)
(***************************************************************************)
\* the deal object id has been dropped: it is not app.deal any more
Dropped(id) == ~(deal.def /\ deal.id = id)

\* C5: for every deal that is created the terminal snapshot is handed to
\* storage exactly once: never twice, and once the deal has been dropped (at
\* the latest when the next deal supersedes it) never zero times.
C5_HandoffExactlyOnce ==
    \A id \in 1..ndeals :
       /\ saved[id] <= 1
       /\ Dropped(id) => saved[id] = 1

\* C6: whenever the current deal is discarded with actions on record (by a deal
\* message for another board, a change of table, a table close, a login or a
\* session end), its snapshot has been handed to storage by the time it is
\* dropped.
C6_SavedBeforeDiscard ==
    [][(deal.def /\ Actions(deal) > 0 /\ (~deal'.def \/ deal'.id # deal.id))
          => saved'[deal.id] >= 1]_vars

\* C7: a deal message whose board differs from the current deal's starts a new
\* Deal; a deal message sent again for the same board at the same table (the
\* repeated Board 1 of bidding and teaching tables aside) starts none and keeps
\* the auction, play record and tricks of the deal in progress.
C7_DealBoundary ==
    [][\A m \in DealMsgs, f \in BOOLEAN :
          (ScDeal(MaxDeals, m[1], m[2], f) /\ deal.def) =>
             IF m[1] # deal.board
             THEN /\ deal'.id # deal.id
                  /\ deal'.board = m[1]
                  /\ deal'.auction = <<>> /\ deal'.play = <<>>
             ELSE (deal.table_id = table.table_id /\ ~DoubleBoard1(m[1], m[2]))
                  => /\ deal'.id = deal.id
                     /\ deal'.auction = deal.auction
                     /\ deal'.play = deal.play
                     /\ deal'.tricks = deal.tricks
                     /\ trick' = trick]_vars

(***************************************************************************)
(* Properties of the trick evaluator and of the recommendation engine      *)
(***************************************************************************)
\* C10: for every completed trick with led suit L and trump T (none at
\* notrump): if any of its four cards is of suit T the winner, who leads the
\* next trick, is the seat that played the highest card of suit T; otherwise
\* the seat that played the highest card of suit L; a card of another suit
\* never wins.  Ranks are ordered 2 < 3 < ... < 9 < T < J < Q < K < A.
C10_TrickWinner ==
    (deal.def /\ deal.seenOpeningLead) =>
       \A i \in 1..Len(deal.tricks) :
          LET t      == deal.tricks[i]
              next   == AllTricks(deal, trick)[i+1]
              w      == ((next.leader - t.leader + 4) % 4) + 1
              T      == deal.denom
              L      == t.cards[1][1]
              ofSuit(x) == {j \in 1..4 : t.cards[j][1] = x}
              rank(j)   == IndexOf(rankorder, t.cards[j][2])
              top(x)    == w \in ofSuit(x) /\ \A j \in ofSuit(x) : rank(j) <= rank(w)
          IN  IF ofSuit(T) # {} THEN top(T) ELSE top(L)

\* hearts are trump and the trick spade ace (led), heart 2, spade king, spade
\* queen has been won by the seat after the leader, who played the heart 2
C10_ScenarioC ==
    /\ deal.def /\ deal.denom = "H" /\ Len(deal.tricks) = 1
    /\ deal.tricks[1].cards = << <<"S","A">>, <<"H","2">>, <<"S","K">>, <<"S","Q">> >>
    /\ trick.leader = (deal.tricks[1].leader + 1) % 4

\* the deal of a request is the deal the viewer shows: same board number, same
\* four hands as dealt
SameFingerprint(d, v) == d.bnum = v.bnum /\ d.hand = v.hand

SeatOfCall(d, j) == (IndexOf(seatorder, d.dealer) + j) % 4

Partner(seat) == (seat + 2) % 4

\* positions of the bids of the auction that name the strain
Naming(au, strain) ==
    {j \in 0..(Len(au)-1) : Len(au[j+1]) = 2 /\ au[j+1][2] = strain}

\* C11: once the auction is complete with a contract and the opening lead is
\* made, the declarer is the seat, of the two seats of the side that made the
\* final bid, that first named the strain of the contract; the dummy is the
\* partner of that seat and the opening leader is the seat clockwise of it.
C11_DeclarerOfContractSide ==
    (deal.def /\ deal.seenOpeningLead) =>
        LET au     == deal.auction
            i1     == LastBidIndex(au)
            strain == au[i1+1][2]
            maker  == SeatOfCall(deal, i1)
            side   == {maker, Partner(maker)}
            first  == MinOf({j \in Naming(au, strain) : SeatOfCall(deal, j) \in side})
        IN  /\ deal.contract = au[i1+1]
            /\ deal.denom = strain
            /\ deal.declarer = SeatOfCall(deal, first)
            /\ Partner(deal.declarer) \in side \ {deal.declarer}
            /\ trick.leader = (SeatOfCall(deal, first) + 1) % 4

\* Scenario A: dealer North, 1S - Pass - 2S - Pass - Pass - Pass; North declares
\* 2S, South is dummy and East leads.
C11_ScenarioA ==
    /\ deal.def /\ deal.seenOpeningLead
    /\ deal.dealer = "n"
    /\ deal.auction = << <<"1","S">>, Pass, <<"2","S">>, Pass, Pass, Pass >>
    /\ deal.contract = <<"2","S">>
    /\ deal.declarer = 2
    /\ Partner(deal.declarer) = 0
    /\ trick.leader = 3

\* C12 (amended): the resolver scans forward from the first call of the side
\* that made the final bid, two calls at a time, and the declarer is the seat
\* of the earliest bid on that scan whose strain is the strain of the contract;
\* bids of the strain by the other side are not on the scan.
C12_ScanOfContractSide ==
    (deal.def /\ deal.seenOpeningLead) =>
        LET au   == deal.auction
            i1   == LastBidIndex(au)
            scan == {j \in Naming(au, au[i1+1][2]) : j % 2 = i1 % 2}
        IN  \E j \in scan :
               /\ \A k \in scan : j <= k
               /\ deal.declarer = (IndexOf(seatorder, deal.dealer) + j) % 4

\* the strain of the contract was named first by the side that defends it
C12_OpponentNamedFirst ==
    /\ deal.def /\ deal.seenOpeningLead
    /\ LET au == deal.auction
           i1 == LastBidIndex(au)
       IN  MinOf(Naming(au, au[i1+1][2])) % 2 # i1 % 2

\* C12 as stated: the declarer is the seat of the earliest bid of the strain
\* of the contract, whichever seat made that bid.
C12_EarliestOfAnySeat ==
    (deal.def /\ deal.seenOpeningLead) =>
        LET au == deal.auction
            i1 == LastBidIndex(au)
        IN  deal.declarer = SeatOfCall(deal, MinOf(Naming(au, au[i1+1][2])))

\* the completion predicate of the specification
AuctionOver(au) ==
    LET n == Len(au) IN
    /\ n >= 4
    /\ au[n] = Pass /\ au[n-1] = Pass /\ au[n-2] = Pass
    /\ \/ \E i \in 1..(n-3) : au[i] # Pass
       \/ n = 4 /\ \A i \in 1..4 : au[i] = Pass

\* C13: for every auction reachable from a new deal the tracker takes the
\* auction as complete if and only if it has at least four calls, its last
\* three calls are passes, and either an earlier call is not a pass or it is
\* exactly four passes; three leading passes, or a bid followed by two passes,
\* are not complete.
C13_AuctionCompletion ==
    deal.def =>
        LET au == deal.auction
            n  == Len(au)
        IN  /\ ~AuctionIncomplete(au) <=> AuctionOver(au)
            /\ (n = 3 /\ \A i \in 1..3 : au[i] = Pass) => AuctionIncomplete(au)
            /\ (n >= 3 /\ Len(au[n-2]) = 2 /\ au[n-1] = Pass /\ au[n] = Pass)
                   => AuctionIncomplete(au)
            /\ deal.seenOpeningLead => AuctionOver(au)

\* three leading passes, an opening bid and three closing passes
C13_OpenedInFourthSeat ==
    /\ deal.def
    /\ deal.auction = << Pass, Pass, Pass, <<"1","H">>, Pass, Pass, Pass >>
    /\ ~AuctionIncomplete(deal.auction)
    /\ deal.seenOpeningLead

PassOut == << Pass, Pass, Pass, Pass >>

\* C14: when the auction is exactly four passes, contract resolution yields a
\* 'no contract' result and not an error, the deal is complete with no card
\* played, and no trick is credited to either side.
C14_PassOutNoContract ==
    (deal.def /\ deal.auction = PassOut) =>
        LET r == AuctionContract(deal) IN
        /\ ~r.threw
        /\ r.deal.contract = <<"Pass">>
        /\ MachineState(r.deal) = "Complete"
        /\ r.deal.play = <<>>
        /\ r.deal.tricks = <<>>

(***************************************************************************)
(* Properties of the handlers outside their phase.  Stated of the handler  *)
(* at every reachable state, for the events the table could send there.    *)
(***************************************************************************)
\* C15: a call is applied only while the deal is Auctioning: a call that
\* arrives after the auction is complete (Playing or Complete), or with no
\* deal, is ignored and leaves the auction and the rest of the deal unchanged.
C15_CallOnlyWhileAuctioning ==
    \A call \in AuctionCalls :
       MachineState(deal) # "Auctioning" =>
          LET r == HandleCall(deal, saved, call) IN
          r.deal = deal /\ r.saved = saved

\* C16: a card is applied only while the deal is Playing: a card that arrives
\* while the auction is incomplete, after a pass-out or after the deal is
\* Complete is ignored: it is not added to the play record, opens no trick and
\* binds no contract, declarer or opening leader.
C16_CardOnlyWhilePlaying ==
    (deal.def /\ MachineState(deal) # "Playing") =>
       LET r == HandleCard(deal, trick, saved, NextCard) IN
       /\ r.deal.play = deal.play
       /\ r.trick = trick
       /\ r.deal.seenOpeningLead = deal.seenOpeningLead
       /\ r.deal.contract = deal.contract
       /\ r.deal.declarer = deal.declarer

(***************************************************************************)
(* Properties of the attribution of calls and cards to seats               *)
(***************************************************************************)
\* the name of seat i (0 = South, 1 = West, 2 = North, 3 = East) in an event
SeatName(i) == ToUpperCase(seatorder[i + 1])

\* C17: every call appended to the auction is attributed to the seat
\* (dealer + n) mod 4, clockwise from the dealer, where n is the number of calls
\* already in the auction when it is appended; the seat depends on the dealer
\* and the position only, so it is the same for a call made again after an undo.
C17_CallAttributedByPosition ==
    (deal.def /\ ~CallIgnored(deal)) =>
       \A call \in Calls :
          LET n == Len(deal.auction)
              r == HandleCall(deal, saved, call)
              e == BidMade(r.deal, call)
          IN  /\ r.deal.auction = Append(deal.auction, call)
              /\ e.bidder = SeatName(SeatOfCall(deal, n))
              /\ e.call = call

\* an undo has just reopened a complete auction: the call that is made again
\* is the fourth, by the seat before the dealer
C17_CallAgainAfterUndo ==
    /\ last.op = "sc_undo" /\ ~last.error
    /\ deal.def /\ ~CallIgnored(deal)
    /\ Len(deal.auction) = 3 /\ deal.auction[1] # Pass
    /\ BidMade(HandleCall(deal, saved, Pass).deal, Pass).bidder
          = SeatName(SeatOfCall(deal, 3))
    /\ SeatOfCall(deal, 3) = (IndexOf(seatorder, deal.dealer) + 3) % 4

\* C18: every card played is attributed to the seat (leader of the trick in
\* progress + cards already in it) mod 4, and the player named in the
\* card_played event forwarded for it is that seat; for the opening lead of a
\* deal, after an undo into the auction too, it is the seat clockwise of the
\* declarer resolved from the current auction.
C18_CardAttributedToSeat ==
    (deal.def /\ CardAccepted(deal) /\ MachineState(deal) = "Playing") =>
       LET e    == CardPlayed(deal, trick, NextCard)
           seat == IF deal.seenOpeningLead
                   THEN (trick.leader + Len(trick.cards)) % 4
                   ELSE (AuctionContract(deal).deal.declarer + 1) % 4
       IN  e.player = SeatName(seat)

(***************************************************************************)
(* Properties of the cards of a deal                                       *)
(***************************************************************************)
\* the cards of the completed tricks and of the trick in progress, in order
RECURSIVE CardsOf(_)
CardsOf(tricks) ==
    IF tricks = <<>> THEN <<>> ELSE Head(tricks).cards \o CardsOf(Tail(tricks))

\* how many times card c occurs in the sequence
Copies(cards, c) == Cardinality({i \in 1..Len(cards) : cards[i] = c})

\* C19: no card appears more than once across the completed tricks and the
\* trick in progress, and no more cards are played than the deal holds; a
\* card played message for a card that was already played adds no second copy.
C19_NoCardTwice ==
    (deal.def /\ CardAccepted(deal) /\ deal.seenOpeningLead) =>
       /\ \A i \in 1..Len(deal.play) :
             /\ Copies(CardsOf(AllTricks(deal, trick)), deal.play[i]) = 1
             /\ Copies(deal.play, deal.play[i]) = 1
       /\ Len(deal.play) <= NumCards
       /\ \A i \in 1..Len(deal.play) :
             LET r == HandleCard(deal, trick, saved, deal.play[i]) IN
             /\ Copies(r.deal.play, deal.play[i]) = 1
             /\ Copies(CardsOf(AllTricks(r.deal, r.trick)), deal.play[i]) = 1

\* the seat that is to play the next card of a deal in play
SeatToPlay(d, t) ==
    IF d.seenOpeningLead THEN (t.leader + Len(t.cards)) % 4
    ELSE (AuctionContract(d).deal.declarer + 1) % 4

\* C20: each accepted card play removes that card from the known hand of the
\* seat that plays it.  South's hand is the one hand known on every deal
\* (app.deal.south, the hand as the deal message gave it): after a card of
\* South is accepted the hand is not what it was before.
C20_CardLeavesHand ==
    (deal.def /\ CardAccepted(deal) /\ MachineState(deal) = "Playing") =>
       (SeatToPlay(deal, trick) = 0 =>
           LET r == HandleCard(deal, trick, saved, NextCard) IN
           /\ r.deal.play = Append(deal.play, NextCard)
           /\ r.deal.south # deal.south)

(***************************************************************************)
(* Properties of the end of a deal                                         *)
(***************************************************************************)
\* The tricks won by the seats of a set, of the completed tricks of a deal:
\* the winner of a trick is the leader of the trick after it.
TricksWonBy(d, t, seats) ==
    Cardinality({i \in 1..Len(d.tricks) : AllTricks(d, t)[i+1].leader \in seats})

NorthSouth == {0, 2}
EastWest == {1, 3}

\* C21: when the last card of a deal is played the deal has one completed
\* trick for every four cards (13 of 52) and no trick in progress, the tricks
\* won by the two sides sum to that number, and the tracker is Complete.
C21_LastCardCompletes ==
    (deal.def /\ deal.seenOpeningLead /\ Len(deal.play) = NumCards) =>
       /\ Len(deal.tricks) = HandSize
       /\ \A i \in 1..HandSize : Len(deal.tricks[i].cards) = TrickSize
       /\ trick.cards = <<>>
       /\ TricksWonBy(deal, trick, NorthSouth) + TricksWonBy(deal, trick, EastWest)
             = HandSize
       /\ MachineState(deal) = "Complete"
       /\ saved[deal.id] = 1

\* the last card has been played and each side has won a trick
C21_AllCardsPlayed ==
    /\ deal.def /\ deal.seenOpeningLead /\ Len(deal.play) = NumCards
    /\ deal.timingSaved
    /\ TricksWonBy(deal, trick, NorthSouth) >= 1
    /\ TricksWonBy(deal, trick, EastWest) >= 1

\* tricks still to be played in a deal in play
RemainingTricks(d) == HandSize - Len(d.tricks)

\* the two seats of the declaring side
DeclaringSide(d) == {d.declarer, Partner(d.declarer)}

\* The tricks of the declaring side after a claim, as the specification credits
\* them: the tricks already won plus the tricks claimed if the claimer is on the
\* declaring side, plus the tricks not claimed if the claimer is a defender.
DeclarerTotal(d, t, claimed, claimer) ==
    TricksWonBy(d, t, DeclaringSide(d))
       + (IF claimer \in DeclaringSide(d) THEN claimed
          ELSE RemainingTricks(d) - claimed)

\* the accepted claims the table can send during a deal in play
ClaimMsgs(d) ==
    [tricks : 0..RemainingTricks(d), claimer : 0..3]

\* C22: an accepted claim in Playing completes the deal with no further card
\* and credits the declaring side with the tricks it has won plus the tricks
\* claimed (claimer on the declaring side) or plus the tricks not claimed
\* (claimer a defender), the other side with the rest.  The event forwarded
\* for the claim therefore tells apart two claims that are credited differently.
C22_ClaimCredited ==
    (deal.def /\ deal.seenOpeningLead /\ MachineState(deal) = "Playing") =>
       /\ MachineState(SaveDealTiming(deal, saved).deal) = "Complete"
       /\ SaveDealTiming(deal, saved).deal.play = deal.play
       /\ \A m1, m2 \in ClaimMsgs(deal) :
             DeclarerTotal(deal, trick, m1.tricks, m1.claimer)
                # DeclarerTotal(deal, trick, m2.tricks, m2.claimer)
             => ClaimAccepted(deal, m1) # ClaimAccepted(deal, m2)

\* C23: a deal message for a new board is accepted in every state and leaves
\* the tracker Auctioning with a freshly constructed deal: empty auction and
\* play record, no completed trick, an empty trick in progress, no contract
\* and no declarer; nothing recorded for the previous deal remains.
C23_NewDealFresh ==
    [][\A m \in DealMsgs, f \in BOOLEAN :
          (ScDeal(MaxDeals, m[1], m[2], f) /\ (deal.def => m[1] # deal.board)) =>
             /\ deal'.def /\ deal'.board = m[1]
             /\ MachineState(deal') = "Auctioning"
             /\ deal'.auction = <<>> /\ deal'.play = <<>> /\ deal'.tricks = <<>>
             /\ deal'.actionTime = <<>>
             /\ deal'.contract = <<"undefined">> /\ deal'.declarer = Undef
             /\ ~deal'.seenOpeningLead
             /\ trick'.cards = <<>>]_vars

(***************************************************************************)
(* Properties of the handling of malformed events                          *)
(***************************************************************************)
\* C24: an event that lacks a required field (here the card of the user's
\* card play) is rejected and leaves the deal unchanged: nothing is appended
\* to the play record, the trick in progress or the timing list.
C24_MalformedRejected ==
    (deal.def /\ ~deal.amDummy /\ MachineState(deal) = "Playing") =>
       /\ CardOfCsPlayCard(CsPlayCardMsg(NextCard)) = NextCard
       /\ LET r == HandleCsPlayCard(deal, trick, saved, CsPlayCardNoCard) IN
          /\ r.deal.play = deal.play
          /\ r.deal.actionTime = deal.actionTime
          /\ r.trick = trick
          /\ r.deal = deal

\* C25: no event in any state makes the processing of the event end in an
\* unhandled error: a card, an own bid, a claim, an undo or a deal blast
\* complete message that arrives when there is no deal, and the contract
\* resolution of an auction of passes, are ignored or answered with a result.
C25_NoUnhandledError ==
    \A mtype \in EventTypes : ~Aborts(mtype, deal)

(***************************************************************************)
(* Properties of the recommendation (SpecTrick)                            *)
(***************************************************************************)
\* the hands the seat on play can hold: up to MaxHand of the cards not yet
\* played, as lists in the order of the deck
RECURSIVE HandList(_)
HandList(cards) ==
    IF cards = {} THEN <<>>
    ELSE LET first == CHOOSE c \in cards :
                         \A o \in cards :
                            \/ IndexOf(suitorder, c[1]) < IndexOf(suitorder, o[1])
                            \/ /\ c[1] = o[1]
                               /\ IndexOf(rankorder, c[2]) >= IndexOf(rankorder, o[2])
         IN  <<first>> \o HandList(cards \ {first})

HandsOnPlay ==
    LET unplayed == {c \in TrickDeck : \A i \in 1..Len(deal.play) : deal.play[i] # c}
    IN  {HandList(h) : h \in {x \in SUBSET unplayed : Cardinality(x) <= MaxHand}}

\* the suit led to the trick in progress, "" if the seat on play leads
LedSuit(t) == IF t.cards = <<>> THEN "" ELSE Suit(t.cards[1])

C27_NewDealOncePerBoard ==
    [][\A m \in DealMsgs, f \in BOOLEAN :
          ScDeal(MaxDeals, m[1], m[2], f) =>
             (NewDealForwarded(m[1], f)
                 <=> (deal'.def /\ (deal.def => deal'.id # deal.id)))]_vars

\* C28: every call and every card the tracker records, the user's own bids
\* and card plays included, is forwarded to the bot as exactly one bid_made or
\* card_played event; no action is missed or duplicated.
C28_EveryActionForwarded ==
    [][/\ \A call \in Calls :
             /\ (ScCallMade(call) /\ deal'.auction # deal.auction)
                   => EventsForwarded("sc_call_made", deal) = 1
             /\ CsMakeBid(call) => EventsForwarded("cs_make_bid", deal) = 1
       /\ (ScCardPlayed /\ deal'.play # deal.play)
             => EventsForwarded("sc_card_played", deal) = 1
       /\ CsPlayCard => EventsForwarded("cs_play_card", deal) = 1]_vars

\* C29: for every new deal of which all four hands are known a double dummy
\* analysis is requested and, once the solver answers, the result is forwarded
\* to the bot.
C29_AnalysisForwarded ==
    (deal.def /\ deal.d.def) => SolverAnswered(PrefetchCallback).forwarded

\* The doubling of the contract of a complete auction by the rules of the
\* game: the last double or redouble after the final bid, if there is one.
Doubling(au) ==
    LET i1   == LastBidIndex(au)
        late == {j \in (i1+1)..(Len(au)-1) : au[j+1] \in {Double, Redouble}}
    IN  IF late = {} THEN "undoubled"
        ELSE IF au[MaxOf(late)+1] = Double THEN "doubled" ELSE "redoubled"

\* the auction with a pass in place of every double and redouble
Undoubled(au) ==
    [j \in 1..Len(au) |-> IF au[j] \in {Double, Redouble} THEN Pass ELSE au[j]]

\* what the resolver binds
Resolved(d) ==
    LET r == AuctionContract(d).deal IN
    [contract |-> r.contract, denom |-> r.denom, declarer |-> r.declarer]

\* C30: the resolved contract records whether it is undoubled, doubled or
\* redoubled, by the most recent double or redouble after the final bid: the
\* contract resolved from a doubled auction is not the contract resolved from
\* the same auction without its doubles.
C30_DoublingRecorded ==
    (deal.def /\ HasContract(deal.auction)
        /\ Doubling(deal.auction) # "undoubled") =>
       Resolved(deal) # Resolved([deal EXCEPT !.auction = Undoubled(deal.auction)])

(***************************************************************************)
(* Properties of the two trackers of one feed                              *)
(***************************************************************************)
\* C31: when the deal is sent again because the player became dummy, every call
\* and card made at the table is recorded exactly once: the calls and the opening
\* lead of the recap are not appended again, also when an undo back into the
\* auction is followed by a second deal sent again.  Once the opening lead has
\* been sent again after the recap, the record is the table's auction and play.
C31_RecordedOnce ==
    deal.def =>
       /\ deal.auction = atTable.auction
       /\ atTable.phase = "live" => deal.play = atTable.play

(***************************************************************************)
(* Properties of the records of the content script                         *)
(***************************************************************************)
\* C32: in every reachable state the timing list has exactly
\* auction.length + play.length entries (sequence lengths are never negative),
\* after any interleaving of calls, cards, the user's own bids and plays, undos
\* and deals sent again.
C32_TimingPerAction ==
    deal.def => Len(deal.actionTime) = Len(deal.auction) + Len(deal.play)

\* an undo has been applied to a deal that was sent again to the dummy, with
\* cards still on the table
C32_UndoneAsDummy ==
    /\ deal.def /\ deal.amDummy
    /\ last.op = "sc_undo" /\ ~last.error /\ last.count >= 2
    /\ Len(deal.play) > 0

\* C33: in every reachable state 4 x (completed tricks) + (cards of the trick in
\* progress) is the number of cards of the play record, every completed trick
\* holds exactly 4 cards and the trick in progress at most 3, after any sequence
\* of cards and undos, also an undo into the auction followed by new play.
C33_TricksMatchPlay ==
    deal.def =>
       /\ TrickSize * Len(deal.tricks) + Len(trick.cards) = Len(deal.play)
       /\ \A i \in 1..Len(deal.tricks) : Len(deal.tricks[i].cards) = TrickSize
       /\ Len(trick.cards) < TrickSize

\* C34: after any sequence of server and client messages the two trackers of the
\* feed agree: the auction of the injected script is the auction of the content
\* script and its ncardsPlayed is the length of the content script's play
\* record, also across undos, a table close and a deal sent again to the dummy
\* (compared once the recap of a deal sent again is over).
C34_TrackersAgree ==
    atTable.phase \in {"live", "closed"} =>
       /\ injected.def = deal.def
       /\ deal.def => /\ injected.auction = deal.auction
                       /\ injected.ncardsPlayed = Len(deal.play)

\* C35: the injected tracker never rolls back past the start of the deal: an
\* sc_undo whose count exceeds its recorded calls plus cards played leaves its
\* auction and card count unchanged and throws no exception.
C35_InjectedUndoPastStart ==
    \A count \in 1..MaxUndo :
       (injected.def /\ count > Len(injected.auction) + injected.ncardsPlayed) =>
          InjectedUndo(injected, count, FALSE) = [deal |-> injected, error |-> FALSE]

\* C36: the snapshot persisted for a deal is that of its last completion: when
\* actions are undone after the snapshot was taken (an undo after the last card)
\* and the play is completed again, the snapshot is written again.
C36_SnapshotOfLastCompletion ==
    [][(/\ deal.def /\ deal'.def /\ deal'.id = deal.id
        /\ Len(deal.play) = NumCards - 1 /\ Len(deal'.play) = NumCards)
       => saved'[deal.id] = saved[deal.id] + 1]_vars

(***************************************************************************)
(* Properties of the double dummy display                                  *)
(***************************************************************************)
\* C37: double dummy information rendered in a deal viewer belongs to the deal
\* the viewer shows: whenever a result is rendered, its board number is the
\* board number of the viewer (mod 16), also when the board changes while the
\* result arrives or is being rendered.
C37_RenderedForViewerBoard ==
    [][(ddShown' # ddShown /\ ddShown'.def /\ viewer'.def)
          => BoardNumberEquivalent(ddShown'.d, viewer'.bnum)]_vars

(***************************************************************************)
(* Properties of the events sent to the bot                                *)
(***************************************************************************)
\* C38: whenever the tracker applies an undo, the bot is informed of it: the
\* handler of an <sc_undo> that rolled actions back has forwarded an event.
C38_UndoForwarded ==
    (last.op = "sc_undo" /\ ~last.error /\ last.count > 0)
       => EventsForwarded("sc_undo", deal) >= 1

(***************************************************************************)
(* Properties of the WebSocket listener                                    *)
(***************************************************************************)
\* the messages of a stream of bytes: its text cut at the NULs
MessagesOf(stream) ==
    LET pieces == Split(Decode(stream)) IN SubSeq(pieces, 1, Len(pieces) - 1)

Received == SubSeq(socket.stream, 1, Len(socket.stream) - Len(socket.rest))

\* C39: every message ended by NUL is delivered to both trackers exactly once,
\* complete and in the order of arrival, however the stream is cut into frames:
\* what has been delivered is the messages whose NUL has been received, as the
\* server sent them, and a message whose end is still to come is held back.
C39_DeliveredOnceInOrder ==
    LET n == Cardinality({i \in 1..Len(Received) : Received[i] = Nul}) IN
    /\ socket.toContent = SubSeq(MessagesOf(socket.stream), 1, n)
    /\ socket.toInjected = socket.toContent

(***************************************************************************)
(* Properties of fetchdeals                                                *)
(***************************************************************************)
\* every request has been sent and has completed
AllCompleted ==
    fetch.phase = "fetching" /\ fetch.inflight = {} /\ fetch.nFetched = fetch.nhands

\* C40: for any order of completion of its requests fetchdeals calls its
\* callback exactly once, and only after the request of every id has completed
\* (with or without success).
C40_CallbackOnce ==
    /\ fetch.callbacks <= 1
    /\ (fetch.phase = "fetching" /\ fetch.callbacks = 1) => AllCompleted
    /\ AllCompleted => fetch.callbacks = 1
    /\ fetch.phase = "cached" => fetch.callbacks = 1

====
